---------------------------- MODULE Spec2Model ----------------------------
(***************************************************************************)
(* Model of the benchmark tooling of the poet repository:                  *)
(*   - scripts/parse_bench.py   : parse_bench_file, the two-phase line     *)
(*                                scanner that turns report text into a    *)
(*                                Report (metadata, tables, warnings);     *)
(*   - scripts/analyze_bench.py : compiler_sort_key, column_key and        *)
(*                                build_comparison_table, the cross-run    *)
(*                                join into ComparisonRows, and            *)
(*                                load_results, the walk over the result   *)
(*                                files;                                   *)
(*   - tools/amalgamate.py      : inline_file, the recursive inlining of   *)
(*                                project headers into a single header.    *)
(*                                                                         *)
(* Python strings are sequences of one-character strings, so that strip,   *)
(* split, substring tests and the regular expressions of the source are    *)
(* computed and not assumed.  A Python dict is a sequence of <<key,value>> *)
(* pairs with unique keys in insertion order.  An optional value (None or  *)
(* a value) is the empty sequence or a one-element sequence.               *)
(***************************************************************************)
EXTENDS Integers, Sequences, FiniteSets, TLC

VARIABLES
    \* ---- parse_bench_file ----
    lines,          \* text.splitlines()
    i,              \* index of the line under the scanner (1-based)
    phase,          \* "idle" | "preamble" | "tables" | "done"
    metadata,       \* result["metadata"]
    tables,         \* result["tables"]
    warnings,       \* result["warnings"]
    current_title,  \* None or Some(title)
    header_cols,    \* None or Some(list of column names)
    rows,           \* rows accumulated for the table in progress
    first_report,   \* None, or Some(the Report returned by an earlier call on the text)
    \* ---- build_comparison_table ----
    data,           \* {bench_name: {column_key: parsed_json}}
    agg,            \* "idle" | "loading" | "built"
    sorted_cols,    \* the column list returned
    out_rows,       \* the ComparisonRows returned
    \* ---- load_results ----
    files,          \* sorted(results_root.rglob("*.json")), each with its content
    fidx,           \* index of the file under the loop (1-based)
    diags,          \* the warnings printed to stderr
    \* ---- inline_file ----
    processed,      \* the set of resolved paths already entered
    frames,         \* the calls of inline_file in progress, outermost first
    call,           \* None or Some(path): a call of inline_file about to start
    begun,          \* per file, the BEGIN_FILE lines emitted
    ended,          \* per file, the END_FILE lines emitted
    skipped,        \* the "Skipped already inlined" markers emitted
    inl             \* "idle" | "running" | "done" | "raised"

parserVars == <<lines, i, phase, metadata, tables, warnings,
                current_title, header_cols, rows, first_report>>
aggVars == <<data, agg, sorted_cols, out_rows>>
loaderVars == <<files, fidx, diags>>
inlineVars == <<processed, frames, call, begun, ended, skipped, inl>>
vars == <<lines, i, phase, metadata, tables, warnings,
          current_title, header_cols, rows, first_report,
          data, agg, sorted_cols, out_rows, files, fidx, diags,
          processed, frames, call, begun, ended, skipped, inl>>

---------------------------------------------------------------------------
(* Bounds of the model.                                                    *)

\* longest report text, in lines
MaxLines == 3
\* most (benchmark, RunKey) entries inserted into the aggregator's input
MaxEntries == 2
\* most files under the results root
MaxFiles == 3
\* the project headers
MaxHeaders == 3
\* most lines of a header
MaxBodyLines == 2

---------------------------------------------------------------------------
(* Generic helpers.                                                        *)

None == <<>>
Some(x) == <<x>>
IsNone(o) == o = <<>>
Truthy(o) == o # <<>> /\ o[1] # <<>>
Val(o) == o[1]

Min(S) == CHOOSE x \in S : \A y \in S : x <= y
Max(S) == CHOOSE x \in S : \A y \in S : x >= y
Last(s) == s[Len(s)]
Front(s) == SubSeq(s, 1, Len(s) - 1)
SeqRange(s) == {s[k] : k \in 1..Len(s)}

---------------------------------------------------------------------------
(* Python str operations on sequences of characters.                       *)

IsSpace(c) == c \in {" ", "\t"}
Digits == {"0", "1", "2", "3", "4", "5", "6", "7", "8", "9"}
UpperCase == {"A", "B", "C", "D", "E", "F", "G", "H", "I", "J", "K", "L", "M",
              "N", "O", "P", "Q", "R", "S", "T", "U", "V", "W", "X", "Y", "Z"}
LowerCase == {"a", "b", "c", "d", "e", "f", "g", "h", "i", "j", "k", "l", "m",
              "n", "o", "p", "q", "r", "s", "t", "u", "v", "w", "x", "y", "z"}
\* \w of the re module, on the characters of the model
IsWord(c) == c \in Digits \cup UpperCase \cup LowerCase \cup {"_"}

LowerChar(c) ==
    CASE c = "A" -> "a" [] c = "B" -> "b" [] c = "C" -> "c" [] c = "D" -> "d"
      [] c = "E" -> "e" [] c = "F" -> "f" [] c = "G" -> "g" [] c = "H" -> "h"
      [] c = "I" -> "i" [] c = "J" -> "j" [] c = "K" -> "k" [] c = "L" -> "l"
      [] c = "M" -> "m" [] c = "N" -> "n" [] c = "O" -> "o" [] c = "P" -> "p"
      [] c = "Q" -> "q" [] c = "R" -> "r" [] c = "S" -> "s" [] c = "T" -> "t"
      [] c = "U" -> "u" [] c = "V" -> "v" [] c = "W" -> "w" [] c = "X" -> "x"
      [] c = "Y" -> "y" [] c = "Z" -> "z" [] OTHER -> c

\* str.lower()
Lower(s) == [k \in 1..Len(s) |-> LowerChar(s[k])]

\* str.strip()
Strip(s) ==
    LET idx == {k \in 1..Len(s) : ~IsSpace(s[k])}
    IN IF idx = {} THEN <<>> ELSE SubSeq(s, Min(idx), Max(idx))

\* sub in s
Contains(s, sub) ==
    \E k \in 1..(Len(s) - Len(sub) + 1) : SubSeq(s, k, k + Len(sub) - 1) = sub

\* s.startswith(p)
StartsWith(s, p) == Len(s) >= Len(p) /\ SubSeq(s, 1, Len(p)) = p

\* s.endswith(p)
EndsWith(s, p) == Len(s) >= Len(p) /\ SubSeq(s, Len(s) - Len(p) + 1, Len(s)) = p

\* s.split(d) for a one-character separator d
RECURSIVE SplitFrom(_, _, _, _)
SplitFrom(s, d, k, cur) ==
    IF k > Len(s) THEN <<cur>>
    ELSE IF s[k] = d THEN <<cur>> \o SplitFrom(s, d, k + 1, <<>>)
    ELSE SplitFrom(s, d, k + 1, Append(cur, s[k]))

Split(s, d) == SplitFrom(s, d, 1, <<>>)

\* s.replace(c, "") for every character c of the set cs
RECURSIVE RemoveChars(_, _)
RemoveChars(s, cs) ==
    IF s = <<>> THEN <<>>
    ELSE IF s[1] \in cs THEN RemoveChars(Tail(s), cs)
    ELSE <<s[1]>> \o RemoveChars(Tail(s), cs)

\* [x for x in s if x]
RECURSIVE NonEmpty(_)
NonEmpty(s) ==
    IF s = <<>> THEN <<>>
    ELSE IF s[1] = <<>> THEN NonEmpty(Tail(s))
    ELSE <<s[1]>> \o NonEmpty(Tail(s))

---------------------------------------------------------------------------
(* Python dict as a sequence of <<key, value>> pairs, insertion ordered.   *)

DictKeys(d) == [k \in 1..Len(d) |-> d[k][1]]
DictHas(d, key) == \E k \in 1..Len(d) : d[k][1] = key
DictIndex(d, key) == CHOOSE k \in 1..Len(d) : d[k][1] = key
\* d[key], for a key of d
DictAt(d, key) == d[DictIndex(d, key)][2]
\* d.get(key, default)
DictGet(d, key, default) == IF DictHas(d, key) THEN DictAt(d, key) ELSE default
\* d[key] = value: a present key keeps its place, a new key goes last
DictSet(d, key, value) ==
    IF DictHas(d, key)
    THEN [d EXCEPT ![DictIndex(d, key)] = <<key, value>>]
    ELSE Append(d, <<key, value>>)

\* The JSON shape of a Table and of a Report: dicts keyed by the strings
\* "title", "columns", "rows" and "metadata", "tables", "warnings"
MkTable(title, columns, trows) ==
    << <<"title", title>>, <<"columns", columns>>, <<"rows", trows>> >>
MkReport(meta, tabs, warns) ==
    << <<"metadata", meta>>, <<"tables", tabs>>, <<"warnings", warns>> >>
TitleOf(table) == DictGet(table, "title", <<>>)
ColumnsOf(table) == DictGet(table, "columns", <<>>)
RowsOf(table) == DictGet(table, "rows", <<>>)
TablesOf(parsed) == DictGet(parsed, "tables", <<>>)

---------------------------------------------------------------------------
(* Cell values: int, float, str or None.  A float is the decimal number    *)
(* n / 10^e in lowest form (12.50 and 12.5 are the same float).            *)

IntV(k) == [t |-> "int", n |-> k, e |-> 0, s |-> <<>>]
StrV(x) == [t |-> "str", n |-> 0, e |-> 0, s |-> x]
NoneV == [t |-> "none", n |-> 0, e |-> 0, s |-> <<>>]

RECURSIVE FloatNorm(_, _)
FloatNorm(k, sc) ==
    IF sc < 0 THEN FloatNorm(k * 10, sc + 1)
    ELSE IF sc > 0 /\ k % 10 = 0 THEN FloatNorm(k \div 10, sc - 1)
    ELSE [t |-> "float", n |-> k, e |-> sc, s |-> <<>>]

FloatV(k, sc) == FloatNorm(k, sc)

\* isinstance(v, str)
IsStr(v) == v.t = "str"

DigitVal(c) ==
    CASE c = "0" -> 0 [] c = "1" -> 1 [] c = "2" -> 2 [] c = "3" -> 3
      [] c = "4" -> 4 [] c = "5" -> 5 [] c = "6" -> 6 [] c = "7" -> 7
      [] c = "8" -> 8 [] c = "9" -> 9

\* a digit part of a Python numeric literal: digits, single underscores
\* allowed between two digits
IsDigitPart(s) ==
    /\ s # <<>>
    /\ \A k \in 1..Len(s) : s[k] \in Digits \cup {"_"}
    /\ s[1] \in Digits /\ s[Len(s)] \in Digits
    /\ \A k \in 1..(Len(s) - 1) : ~(s[k] = "_" /\ s[k + 1] = "_")

RECURSIVE DigitsValue(_, _)
DigitsValue(s, acc) ==
    IF s = <<>> THEN acc
    ELSE IF s[1] = "_" THEN DigitsValue(Tail(s), acc)
    ELSE DigitsValue(Tail(s), acc * 10 + DigitVal(s[1]))

DigitCount(s) == Cardinality({k \in 1..Len(s) : s[k] \in Digits})

HasSign(s) == s # <<>> /\ s[1] \in {"+", "-"}
Unsigned(s) == IF HasSign(s) THEN Tail(s) ELSE s
SignOf(s) == IF s # <<>> /\ s[1] = "-" THEN -1 ELSE 1

\* int(s) does not raise ValueError (s already stripped)
IsIntLit(s) == IsDigitPart(Unsigned(s))
IntValue(s) == SignOf(s) * DigitsValue(Unsigned(s), 0)

\* position of the exponent letter of a float literal, 0 when there is none
ExpPos(s) ==
    LET ps == {k \in 1..Len(s) : s[k] \in {"e", "E"}}
    IN IF ps = {} THEN 0 ELSE Min(ps)
Mantissa(s) == IF ExpPos(s) = 0 THEN s ELSE SubSeq(s, 1, ExpPos(s) - 1)
Exponent(s) == IF ExpPos(s) = 0 THEN <<>> ELSE SubSeq(s, ExpPos(s) + 1, Len(s))
DotPos(s) == Min({k \in 1..Len(s) : s[k] = "."})
IntPart(m) == SubSeq(m, 1, DotPos(m) - 1)
FracPart(m) == SubSeq(m, DotPos(m) + 1, Len(m))

\* float(s) does not raise ValueError, for a stripped s that contains "."
IsFloatLit(s) ==
    LET u == Unsigned(s)
        m == Mantissa(u)
    IN /\ Contains(m, <<".">>)
       /\ (IntPart(m) = <<>> \/ IsDigitPart(IntPart(m)))
       /\ (FracPart(m) = <<>> \/ IsDigitPart(FracPart(m)))
       /\ ~(IntPart(m) = <<>> /\ FracPart(m) = <<>>)
       /\ (ExpPos(u) = 0 \/ IsIntLit(Exponent(u)))

FloatValue(s) ==
    LET u == Unsigned(s)
        m == Mantissa(u)
        ex == IF ExpPos(u) = 0 THEN 0 ELSE IntValue(Exponent(u))
    IN FloatV(SignOf(s) * DigitsValue(IntPart(m) \o FracPart(m), 0),
              DigitCount(FracPart(m)) - ex)

\* (mutation of Cleaned: the "%" is not removed)
CleanedKeepPercent(val) == Strip(RemoveChars(val, {","}))

\* the cell coercion of a data row
Cleaned(val) == Strip(RemoveChars(val, {",", "%"}))
Coerce(val) ==
    LET cleaned == Cleaned(val)
    IN IF Contains(cleaned, <<".">>)
       THEN IF IsFloatLit(cleaned) THEN FloatValue(cleaned) ELSE StrV(val)
       ELSE IF IsIntLit(cleaned) THEN IntV(IntValue(cleaned)) ELSE StrV(val)

---------------------------------------------------------------------------
(* parse_bench_file: line classification.                                  *)

kw_nsop == <<"n","s","/","o","p">>
kw_ops == <<"o","p","/","s">>
kw_err == <<"e","r","r","%">>
kw_cycop == <<"c","y","c","/","o","p">>
kw_warning == <<"W","a","r","n","i","n","g">>
kw_stability == <<"s","t","a","b","i","l","i","t","y">>
kw_recommendations == <<"R","e","c","o","m","m","e","n","d","a","t","i","o","n","s">>
kw_star == <<"*"," ">>
kw_see == <<"S","e","e"," ">>
kw_eqs == <<"=","=","=">>
key_section == <<"_","s","e","c","t","i","o","n">>

\* the metric names a header's last field is tested against
MetricKeywords == {kw_nsop, kw_ops, kw_err, kw_cycop}

\* re.match(r"^===\s*(.+?)\s*===$", line)
IsSectionLine(line) ==
    /\ Len(line) >= 7
    /\ StartsWith(line, kw_eqs)
    /\ EndsWith(line, kw_eqs)
\* m.group(1): the text between the markers without the white space around
\* it; when it is white space only, the lazy group keeps its last character
SectionName(line) ==
    LET mid == SubSeq(line, 4, Len(line) - 3)
    IN IF Strip(mid) # <<>> THEN Strip(mid) ELSE <<Last(mid)>>

\* the colon of r"^([\w][\w\s()\-]*?):\s+(.+)$": the first one of the line
ColonPos(line) ==
    LET ps == {k \in 1..Len(line) : line[k] = ":"}
    IN IF ps = {} THEN 0 ELSE Min(ps)
IsKeyChar(c) == IsWord(c) \/ IsSpace(c) \/ c \in {"(", ")", "-"}
\* re.match(r"^([\w][\w\s()\-]*?):\s+(.+)$", line), line stripped
MatchesKeyValue(line) ==
    LET p == ColonPos(line)
    IN /\ p >= 2
       /\ IsWord(line[1])
       /\ \A k \in 2..(p - 1) : IsKeyChar(line[k])
       /\ p + 2 <= Len(line)
       /\ IsSpace(line[p + 1])
\* m and not line.startswith("|") and "ns/op" not in line
IsKeyValueLine(line) ==
    /\ MatchesKeyValue(line)
    /\ ~StartsWith(line, <<"|">>)
    /\ ~Contains(line, kw_nsop)
KeyOf(line) == Strip(SubSeq(line, 1, ColonPos(line) - 1))
ValueOf(line) == Strip(SubSeq(line, ColonPos(line) + 1, Len(line)))

\* the nanobench warning / recommendation test
IsWarningLine(stripped) ==
    \/ StartsWith(stripped, kw_warning)
    \/ Contains(Lower(stripped), kw_stability)
    \/ StartsWith(stripped, kw_recommendations)
    \/ StartsWith(stripped, kw_star)
    \/ StartsWith(stripped, kw_see)

\* re.match(r"^[\s|:\-+]+$", stripped) and len(stripped) > 3
IsSeparatorLine(stripped) ==
    /\ stripped # <<>>
    /\ \A k \in 1..Len(stripped) :
          IsSpace(stripped[k]) \/ stripped[k] \in {"|", ":", "-", "+"}
    /\ Len(stripped) > 3

\* "ns/op" in stripped and "|" in stripped
IsHeaderText(stripped) ==
    Contains(stripped, kw_nsop) /\ Contains(stripped, <<"|">>)

\* "|" not in stripped and not stripped.startswith("Warning")
IsTitleText(stripped) ==
    ~Contains(stripped, <<"|">>) /\ ~StartsWith(stripped, kw_warning)

\* (mutation of LineClass: the warning test comes after the header test)
LineClassHeaderFirst(line, hdr) ==
    LET stripped == Strip(line)
    IN IF stripped = <<>> THEN "blank"
       ELSE IF IsSeparatorLine(stripped) THEN "separator"
       ELSE IF IsHeaderText(stripped) THEN "header"
       ELSE IF IsWarningLine(stripped) THEN "warning"
       ELSE IF IsTitleText(stripped) THEN "title"
       ELSE IF Contains(stripped, <<"|">>) /\ Truthy(hdr) THEN "row"
       ELSE "ignored"

\* (mutation of LineClass: no default branch, a line that passes no test of
\* the if-chain has no class)
LineClassNoDefault(line, hdr) ==
    LET stripped == Strip(line)
    IN IF IsWarningLine(stripped) THEN "warning"
       ELSE IF stripped = <<>> THEN "blank"
       ELSE IF IsSeparatorLine(stripped) THEN "separator"
       ELSE IF IsHeaderText(stripped) THEN "header"
       ELSE IF IsTitleText(stripped) THEN "title"
       ELSE IF Contains(stripped, <<"|">>) /\ Truthy(hdr) THEN "row"
       ELSE "none"

\* The class of a Phase 2 line: the first test of the if-chain that it passes.
LineClass(line, hdr) ==
    LET stripped == Strip(line)
    IN IF IsWarningLine(stripped) THEN "warning"
       ELSE IF stripped = <<>> THEN "blank"
       ELSE IF IsSeparatorLine(stripped) THEN "separator"
       ELSE IF IsHeaderText(stripped) THEN "header"
       ELSE IF IsTitleText(stripped) THEN "title"
       ELSE IF Contains(stripped, <<"|">>) /\ Truthy(hdr) THEN "row"
       ELSE "ignored"

\* parts = [p.strip() for p in stripped.split("|")]; parts = [p for p in parts if p]
Fields(stripped) ==
    LET raw == Split(stripped, "|")
    IN NonEmpty([k \in 1..Len(raw) |-> Strip(raw[k])])

\* not any(kw in parts[-1].lower() for kw in ["ns/op", "op/s", "err%", "cyc/op"])
LastIsNotMetric(parts) ==
    ~\E kw \in MetricKeywords : Contains(Lower(Last(parts)), kw)

\* (mutation of HasEmbeddedTitle: the last field is always the title)
HasEmbeddedTitleAlways(parts) == parts # <<>>

\* parts and not any(...): the header's last field is taken as the title
HasEmbeddedTitle(parts) == parts # <<>> /\ LastIsNotMetric(parts)

\* (mutation of HeaderColsOf: the title field is taken out of the columns)
HeaderColsWithoutTitle(parts) ==
    IF HasEmbeddedTitle(parts) THEN Front(parts) ELSE parts

\* header_cols = parts
HeaderColsOf(parts) == parts

\* current_title or ""
TitleOrEmpty(title) == IF Truthy(title) THEN Val(title) ELSE <<>>

\* {"title": current_title or "", "columns": header_cols, "rows": rows}
MakeTable(title, hdr, rs) == MkTable(TitleOrEmpty(title), Val(hdr), rs)

\* the row dict built from the fields of a data row, column by column
RECURSIVE BuildRow(_, _, _, _)
BuildRow(cols, parts, ci, row) ==
    IF ci > Len(cols) THEN row
    ELSE BuildRow(cols, parts, ci + 1,
             DictSet(row, cols[ci],
                 IF ci <= Len(parts) THEN Coerce(Strip(parts[ci])) ELSE NoneV))

MakeRow(cols, parts) == BuildRow(cols, parts, 1, <<>>)

\* if len(parts) >= 2: the row is built and appended
RowAccepted(parts) == Len(parts) >= 2

---------------------------------------------------------------------------
(* parse_bench_file: the report texts of the model.                        *)

L_blank == <<>>
L_header_title == <<"|"," ","n","s","/","o","p"," ","|"," ","e","r","r","%"," ","|"," ","M","a","p"," ","|">>
L_header_plain == <<"|"," ","f","o","r"," ","l","o","o","p"," ","|"," ","n","s","/","o","p"," ","|"," ","e","r","r","%"," ","|">>
L_header_dup == <<"|","n","s","/","o","p","|","n","s","/","o","p","|","M","a","p","|">>
L_header_mixed == <<"|"," ","n","s","/","o","p"," ","|"," ","E","r","r","%"," ","|">>
L_row_full == <<"|"," ","1",",","2","3","4"," ","|"," ","1","2",".","5","0","%"," ","|"," ","n","/","a"," ","|">>
L_row_short == <<"|"," ","0"," ","|"," ","b"," ","|">>
L_row_single == <<"|"," ","7"," ","|">>
L_row_odd == <<"|"," ","1","e","5"," ","|"," ","1",".","2",".","3"," ","|"," ","-",".","5"," ","|">>
L_row_gap == <<"|"," ","7"," ","|"," ","|"," ","b"," ","|">>
L_title == <<"S","o","r","t">>
L_separator == <<"|","-","-","-",":","|","-","-","-","|">>
L_warning == <<"W","a","r","n","i","n","g",":"," ","n","s","/","o","p"," ","|"," ","u","n","s","t","a","b","l","e">>
L_stability == <<"|"," ","S","t","a","b","i","l","i","t","y"," ","|">>
L_key_value == <<"C","P","U",":"," ","x","8","6"," ","(","a","v","x","2",")">>
L_section == <<"=","=","="," ","R","e","g","i","s","t","e","r","s"," ","=","=","=">>

LineSet == {L_blank, L_header_title, L_header_plain, L_header_dup,
            L_header_mixed, L_row_full,
            L_row_short, L_row_single, L_row_odd, L_row_gap, L_title, L_separator,
            L_warning, L_stability,
            L_key_value, L_section}

Texts == UNION {[1..n -> LineSet] : n \in 0..MaxLines}

---------------------------------------------------------------------------
(* parse_bench_file: the scanner.                                          *)

ParserIdle ==
    /\ lines = <<>> /\ i = 1 /\ phase = "idle"
    /\ metadata = <<>> /\ tables = <<>> /\ warnings = <<>>
    /\ current_title = None /\ header_cols = None /\ rows = <<>>
    /\ first_report = None

\* result = {...}; lines = text.splitlines(); i = 0
ParserInit ==
    /\ lines \in Texts
    /\ i = 1
    /\ phase = "preamble"
    /\ metadata = <<>> /\ tables = <<>> /\ warnings = <<>>
    /\ current_title = None /\ header_cols = None /\ rows = <<>>
    /\ first_report = None

InPreamble == phase = "preamble" /\ i <= Len(lines)
InTables == phase = "tables" /\ i <= Len(lines)

\* Phase 1: a blank line is skipped
PreambleBlank ==
    /\ InPreamble
    /\ Strip(lines[i]) = <<>>
    /\ i' = i + 1
    /\ UNCHANGED <<lines, phase, metadata, tables, warnings,
                   current_title, header_cols, rows>>
    /\ UNCHANGED <<first_report, aggVars, loaderVars, inlineVars>>

\* Phase 1: === Some Title ===
PreambleSection ==
    /\ InPreamble
    /\ Strip(lines[i]) # <<>>
    /\ IsSectionLine(Strip(lines[i]))
    /\ metadata' = DictSet(metadata, key_section, SectionName(Strip(lines[i])))
    /\ i' = i + 1
    /\ UNCHANGED <<lines, phase, tables, warnings, current_title, header_cols, rows>>
    /\ UNCHANGED <<first_report, aggVars, loaderVars, inlineVars>>

\* Phase 1: key: value
PreambleKeyValue ==
    /\ InPreamble
    /\ Strip(lines[i]) # <<>>
    /\ ~IsSectionLine(Strip(lines[i]))
    /\ IsKeyValueLine(Strip(lines[i]))
    /\ metadata' = DictSet(metadata, KeyOf(Strip(lines[i])), ValueOf(Strip(lines[i])))
    /\ i' = i + 1
    /\ UNCHANGED <<lines, phase, tables, warnings, current_title, header_cols, rows>>
    /\ UNCHANGED <<first_report, aggVars, loaderVars, inlineVars>>

\* Phase 1 ends: break on any other line, or the lines are used up;
\* then current_title = None, header_cols = None, rows = []
PreambleEnd ==
    /\ phase = "preamble"
    /\ \/ i > Len(lines)
       \/ /\ i <= Len(lines)
          /\ Strip(lines[i]) # <<>>
          /\ ~IsSectionLine(Strip(lines[i]))
          /\ ~IsKeyValueLine(Strip(lines[i]))
    /\ phase' = "tables"
    /\ current_title' = None
    /\ header_cols' = None
    /\ rows' = <<>>
    /\ UNCHANGED <<lines, i, metadata, tables, warnings>>
    /\ UNCHANGED <<first_report, aggVars, loaderVars, inlineVars>>

\* Phase 2: a warning / recommendation line
WarningLine ==
    /\ InTables
    /\ LineClass(lines[i], header_cols) = "warning"
    /\ warnings' = Append(warnings, Strip(lines[i]))
    /\ i' = i + 1
    /\ UNCHANGED <<lines, phase, metadata, tables, current_title, header_cols, rows>>
    /\ UNCHANGED <<first_report, aggVars, loaderVars, inlineVars>>

\* the flush of the table in progress, when a header is active and rows exist
Flushes == Truthy(header_cols) /\ rows # <<>>
Flushed == Append(tables, MakeTable(current_title, header_cols, rows))

\* Phase 2: an empty line flushes the current table
BlankLine ==
    /\ InTables
    /\ LineClass(lines[i], header_cols) = "blank"
    /\ IF Flushes
       THEN tables' = Flushed /\ header_cols' = None /\ rows' = <<>>
       ELSE UNCHANGED <<tables, header_cols, rows>>
    /\ i' = i + 1
    /\ UNCHANGED <<lines, phase, metadata, warnings, current_title>>
    /\ UNCHANGED <<first_report, aggVars, loaderVars, inlineVars>>

\* Phase 2: a table separator line is skipped
SeparatorLine ==
    /\ InTables
    /\ LineClass(lines[i], header_cols) = "separator"
    /\ i' = i + 1
    /\ UNCHANGED <<lines, phase, metadata, tables, warnings,
                   current_title, header_cols, rows>>
    /\ UNCHANGED <<first_report, aggVars, loaderVars, inlineVars>>

\* Phase 2: a table header line
HeaderLine ==
    /\ InTables
    /\ LineClass(lines[i], header_cols) = "header"
    /\ LET parts == Fields(Strip(lines[i]))
       IN /\ current_title' = IF HasEmbeddedTitle(parts)
                              THEN Some(Last(parts)) ELSE current_title
          /\ header_cols' = Some(HeaderColsOf(parts))
    /\ rows' = <<>>
    /\ i' = i + 1
    /\ UNCHANGED <<lines, phase, metadata, tables, warnings>>
    /\ UNCHANGED <<first_report, aggVars, loaderVars, inlineVars>>

\* (mutation of TitleLine: a "=== Title ===" line met in Phase 2 is taken as
\* a metadata section, as in Phase 1)
TitleLineOrSection ==
    /\ InTables
    /\ LineClass(lines[i], header_cols) = "title"
    /\ IF Flushes
       THEN tables' = Flushed /\ header_cols' = None /\ rows' = <<>>
       ELSE UNCHANGED <<tables, header_cols, rows>>
    /\ IF IsSectionLine(Strip(lines[i]))
       THEN /\ metadata' = DictSet(metadata, key_section, SectionName(Strip(lines[i])))
            /\ UNCHANGED current_title
       ELSE /\ current_title' = Some(Strip(lines[i]))
            /\ UNCHANGED metadata
    /\ i' = i + 1
    /\ UNCHANGED <<lines, phase, warnings>>
    /\ UNCHANGED <<first_report, aggVars, loaderVars, inlineVars>>

\* Phase 2: a table title line
TitleLine ==
    /\ InTables
    /\ LineClass(lines[i], header_cols) = "title"
    /\ IF Flushes
       THEN tables' = Flushed /\ header_cols' = None /\ rows' = <<>>
       ELSE UNCHANGED <<tables, header_cols, rows>>
    /\ current_title' = Some(Strip(lines[i]))
    /\ i' = i + 1
    /\ UNCHANGED <<lines, phase, metadata, warnings>>
    /\ UNCHANGED <<first_report, aggVars, loaderVars, inlineVars>>

\* Phase 2: a data row under the active header
DataRow ==
    /\ InTables
    /\ LineClass(lines[i], header_cols) = "row"
    /\ LET parts == Fields(Strip(lines[i]))
       IN rows' = IF RowAccepted(parts)
                  THEN Append(rows, MakeRow(Val(header_cols), parts))
                  ELSE rows
    /\ i' = i + 1
    /\ UNCHANGED <<lines, phase, metadata, tables, warnings,
                   current_title, header_cols>>
    /\ UNCHANGED <<first_report, aggVars, loaderVars, inlineVars>>

\* Phase 2: a line of no class is passed over
IgnoredLine ==
    /\ InTables
    /\ LineClass(lines[i], header_cols) = "ignored"
    /\ i' = i + 1
    /\ UNCHANGED <<lines, phase, metadata, tables, warnings,
                   current_title, header_cols, rows>>
    /\ UNCHANGED <<first_report, aggVars, loaderVars, inlineVars>>

\* the end of the input: the final table is flushed and the Report returned
FinalFlush ==
    /\ phase = "tables"
    /\ i > Len(lines)
    /\ tables' = IF Flushes THEN Flushed ELSE tables
    /\ phase' = "done"
    /\ UNCHANGED <<lines, i, metadata, warnings, current_title, header_cols, rows>>
    /\ UNCHANGED <<first_report, aggVars, loaderVars, inlineVars>>

\* (mutation of NewResult: the result object of the earlier call is used
\* again, as a module-level or default-argument dict would be)
SharedResult(prev) == prev

\* result = {"metadata": {}, "tables": [], "warnings": []}: a new object at
\* every call, whatever an earlier call returned
NewResult(prev) == <<<<>>, <<>>, <<>>>>

\* a second call of parse_bench_file on the same text, after the first has
\* returned: its locals are those of a new call
ParseAgain ==
    /\ phase = "done"
    /\ IsNone(first_report)
    /\ first_report' = Some(<<metadata, tables, warnings>>)
    /\ LET result == NewResult(<<metadata, tables, warnings>>)
       IN metadata' = result[1] /\ tables' = result[2] /\ warnings' = result[3]
    /\ i' = 1
    /\ phase' = "preamble"
    /\ current_title' = None /\ header_cols' = None /\ rows' = <<>>
    /\ UNCHANGED lines
    /\ UNCHANGED <<aggVars, loaderVars, inlineVars>>

ParserNext ==
    \/ PreambleBlank \/ PreambleSection \/ PreambleKeyValue \/ PreambleEnd
    \/ WarningLine \/ BlankLine \/ SeparatorLine \/ HeaderLine \/ TitleLine
    \/ DataRow \/ IgnoredLine \/ FinalFlush

---------------------------------------------------------------------------
(* Python string order and sorting.                                        *)

\* the printable ASCII characters in code point order, from " " (32); the
\* quote, the backslash and the backtick, which no string of the model holds,
\* keep their places under a name
AsciiPrintable ==
    <<" ", "!", "<quote>", "#", "$", "%", "&", "'", "(", ")", "*", "+",
      ",", "-", ".", "/", "0", "1", "2", "3", "4", "5", "6", "7",
      "8", "9", ":", ";", "<", "=", ">", "?", "@", "A", "B", "C",
      "D", "E", "F", "G", "H", "I", "J", "K", "L", "M", "N", "O",
      "P", "Q", "R", "S", "T", "U", "V", "W", "X", "Y", "Z", "[",
      "<backslash>", "]", "^", "_", "<backtick>", "a", "b", "c", "d", "e", "f", "g",
      "h", "i", "j", "k", "l", "m", "n", "o", "p", "q", "r", "s",
      "t", "u", "v", "w", "x", "y", "z", "{", "|", "}", "~">>

\* ord(c)
Ord(c) == CHOOSE k \in 1..Len(AsciiPrintable) : AsciiPrintable[k] = c

\* a < b on str
StrLess(a, b) ==
    \E k \in 1..(Len(a) + 1) :
        /\ k <= Len(b)
        /\ SubSeq(a, 1, k - 1) = SubSeq(b, 1, k - 1)
        /\ (k = Len(a) + 1 \/ Ord(a[k]) < Ord(b[k]))

\* the sequences that hold each element of the finite set S once
Orderings(S) ==
    {p \in [1..Cardinality(S) -> S] : \A x \in S : \E k \in DOMAIN p : p[k] = x}

\* (mutation of SortedStrings: descending order)
SortedStringsDescending(S) ==
    CHOOSE p \in Orderings(S) :
        \A j, k \in DOMAIN p : j < k => StrLess(p[k], p[j])

\* sorted(S) for a set of distinct strings
SortedStrings(S) ==
    CHOOSE p \in Orderings(S) :
        \A j, k \in DOMAIN p : j < k => StrLess(p[j], p[k])

\* s.split(): the maximal runs of characters that are not white space
RECURSIVE SplitWsFrom(_, _, _)
SplitWsFrom(s, k, cur) ==
    IF k > Len(s) THEN (IF cur = <<>> THEN <<>> ELSE <<cur>>)
    ELSE IF IsSpace(s[k])
         THEN (IF cur = <<>> THEN <<>> ELSE <<cur>>) \o SplitWsFrom(s, k + 1, <<>>)
         ELSE SplitWsFrom(s, k + 1, Append(cur, s[k]))
SplitWs(s) == SplitWsFrom(s, 1, <<>>)

\* s.rsplit(" ", 1)[0]
RSplitHead(s) ==
    LET ps == {k \in 1..Len(s) : s[k] = " "}
    IN IF ps = {} THEN s ELSE SubSeq(s, 1, Max(ps) - 1)

---------------------------------------------------------------------------
(* analyze_bench.py: the Run Ordering Policy.                              *)

COMPILER_ORDER ==
    <<<<"g","c","c","-","1","2">>,
      <<"g","c","c","-","1","3">>,
      <<"g","c","c","-","1","4">>,
      <<"g","c","c","-","1","5">>,
      <<"c","l","a","n","g","-","1","8">>,
      <<"c","l","a","n","g","-","1","9">>,
      <<"c","l","a","n","g","-","2","0">>,
      <<"c","l","a","n","g","-","2","1">>,
      <<"c","l","a","n","g","-","2","2">>>>

VARIANT_ORDER == <<<<"d","e","f","a","u","l","t">>, <<"n","a","t","i","v","e">>>>

\* the rank of an unknown compiler
UnknownCompilerRank == 100
\* the rank of an unknown variant
UnknownVariantRank == 99

\* list.index(x), 0-based, for an x of the list
IndexOf(list, x) == Min({k \in 1..Len(list) : list[k] = x}) - 1

\* compiler_sort_key(name): (i, 0) for the i-th known compiler, else (100, 0)
compiler_sort_key(name) ==
    IF \E k \in 1..Len(COMPILER_ORDER) : COMPILER_ORDER[k] = name
    THEN <<IndexOf(COMPILER_ORDER, name), 0>>
    ELSE <<UnknownCompilerRank, 0>>

\* column_key(compiler, variant): f"{compiler} {variant}"
column_key(compiler, variant) == compiler \o <<" ">> \o variant

\* VARIANT_ORDER.index(c.split()[-1]) if c.split()[-1] in VARIANT_ORDER else 99
VariantRank(c) ==
    LET v == Last(SplitWs(c))
    IN IF \E k \in 1..Len(VARIANT_ORDER) : VARIANT_ORDER[k] = v
       THEN IndexOf(VARIANT_ORDER, v)
       ELSE UnknownVariantRank

\* (mutation of ColumnSortKey: the compiler rank before the variant rank)
ColumnSortKeyCompilerFirst(c) ==
    compiler_sort_key(RSplitHead(c)) \o <<VariantRank(c)>>

\* the key of sorted(all_cols, key=...): (variant rank, compiler_sort_key)
ColumnSortKey(c) ==
    <<VariantRank(c)>> \o compiler_sort_key(RSplitHead(c))

\* k1 < k2 on tuples of integers of one length
RECURSIVE TupleLess(_, _)
TupleLess(k1, k2) ==
    IF k1 = <<>> THEN FALSE
    ELSE IF k1[1] # k2[1] THEN k1[1] < k2[1]
    ELSE TupleLess(Tail(k1), Tail(k2))

\* sorted(all_cols, key=...): all_cols is a set, whose iteration order is
\* not fixed (string hashes differ from one process to the next), and the
\* sort is stable, so columns with equal keys come out in any order
SortedColumnOrders(all_cols) ==
    {p \in Orderings(all_cols) :
        \A j, k \in DOMAIN p : j < k => ~TupleLess(ColumnSortKey(p[k]), ColumnSortKey(p[j]))}

---------------------------------------------------------------------------
(* analyze_bench.py: build_comparison_table.                               *)
(* A Report and a Table are the dicts decoded from JSON; a Row is keyed by *)
(* its column names.                                                       *)

col_nsop == kw_nsop
col_ns == <<"n","s">>
col_relative == <<"r","e","l","a","t","i","v","e">>
col_relative_pct == <<"r","e","l","a","t","i","v","e","_","p","c","t">>
key_bench == <<"b","e","n","c","h">>
key_table_title == <<"t","a","b","l","e","_","t","i","t","l","e">>
key_name == <<"n","a","m","e">>
suffix_nsop == <<"_","n","s","o","p">>
suffix_rel == <<"_","r","e","l">>

\* the no-data marker ""
NoData == StrV(<<>>)

\* all_cols: the union of the column keys of every benchmark
AllCols(d) == UNION {SeqRange(DictKeys(d[b][2])) : b \in 1..Len(d)}

\* the tables of the Reports of one benchmark, in the order in which
\* "for col, parsed in bench_data.items(): for table in parsed.get("tables", [])"
\* meets them
RECURSIVE TablesInOrder(_)
TablesInOrder(bench_data) ==
    IF bench_data = <<>> THEN <<>>
    ELSE TablesOf(bench_data[1][2]) \o TablesInOrder(Tail(bench_data))

\* table_templates: the first table met for each title
RECURSIVE CollectTemplates(_, _)
CollectTemplates(tabs, templates) ==
    IF tabs = <<>> THEN templates
    ELSE LET title == TitleOf(tabs[1])
         IN CollectTemplates(Tail(tabs),
                IF DictHas(templates, title) THEN templates
                ELSE DictSet(templates, title, tabs[1]))

TableTemplates(bench_data) == CollectTemplates(TablesInOrder(bench_data), <<>>)

\* (mutation of RowName: a row without a str value is named "")
RowNameOrEmpty(row) ==
    LET idx == {k \in 1..Len(row) : IsStr(row[k][2])}
    IN IF idx = {} THEN Some(<<>>) ELSE Some(row[Min(idx)][2].s)

\* the name of a row: its first str value in key order, or None
RowName(row) ==
    LET idx == {k \in 1..Len(row) : IsStr(row[k][2])}
    IN IF idx = {} THEN None ELSE Some(row[Min(idx)][2].s)

\* the first row named name of the tables titled title of one Report, in
\* table order then row order; None when there is none
RowsTitled(parsed, title) ==
    LET tabs == TablesOf(parsed)
        RECURSIVE Cat(_)
        Cat(k) == IF k > Len(tabs) THEN <<>>
                  ELSE (IF TitleOf(tabs[k]) = title THEN RowsOf(tabs[k]) ELSE <<>>) \o Cat(k + 1)
    IN Cat(1)

\* (mutation of FindRow: the last matching row instead of the first)
FindRowLast(parsed, title, name) ==
    LET rs == RowsTitled(parsed, title)
        idx == {k \in 1..Len(rs) : RowName(rs[k]) = Some(name)}
    IN IF idx = {} THEN None ELSE Some(rs[Max(idx)])

FindRow(parsed, title, name) ==
    LET rs == RowsTitled(parsed, title)
        idx == {k \in 1..Len(rs) : RowName(rs[k]) = Some(name)}
    IN IF idx = {} THEN None ELSE Some(rs[Min(idx)])

\* (mutation of NsopOf: "r.get("ns/op") or r.get("ns") or """, which takes
\* a measured 0 for a missing value)
NsopFalsyAsMissing(r) ==
    LET v == DictGet(r, col_nsop, DictGet(r, col_ns, NoData))
    IN IF v \in {IntV(0), FloatV(0, 0), NoneV} THEN NoData ELSE v

\* nsop = r.get("ns/op", r.get("ns", ""))
NsopOf(r) == DictGet(r, col_nsop, DictGet(r, col_ns, NoData))
\* rel = r.get("relative", r.get("relative_pct", ""))
RelOf(r) == DictGet(r, col_relative, DictGet(r, col_relative_pct, NoData))

\* the pair (<col>_nsop, <col>_rel) of one ComparisonRow for one column
CellOf(bench_data, col, title, name) ==
    LET parsed == DictGet(bench_data, col, <<>>)
        found == IF parsed = <<>> THEN None ELSE FindRow(parsed, title, name)
    IN IF IsNone(found) THEN <<NoData, NoData>>
       ELSE <<NsopOf(Val(found)), RelOf(Val(found))>>

\* (mutation of RowColumns: only the columns of the row's own benchmark)
RowColumnsOfBench(cols, bench_data) ==
    LET Own(c) == DictHas(bench_data, c) IN SelectSeq(cols, Own)

\* the columns a ComparisonRow is filled for: "for col in sorted_cols"
RowColumns(cols, bench_data) == cols

RECURSIVE FillCells(_, _, _, _, _)
FillCells(flat_row, cols, bench_data, title, name) ==
    IF cols = <<>> THEN flat_row
    ELSE LET cell == CellOf(bench_data, cols[1], title, name)
         IN FillCells(
                DictSet(DictSet(flat_row, cols[1] \o suffix_nsop, cell[1]),
                        cols[1] \o suffix_rel, cell[2]),
                Tail(cols), bench_data, title, name)

\* flat_row for one named template row
FlatRow(bench_name, bench_data, cols, title, name) ==
    FillCells(<< <<key_bench, StrV(bench_name)>>,
                 <<key_table_title, StrV(title)>>,
                 <<key_name, StrV(name)>> >>,
              RowColumns(cols, bench_data), bench_data, title, name)

\* the rows appended for one template table: one per named row
RECURSIVE TemplateRows(_, _, _, _, _)
TemplateRows(bench_name, bench_data, cols, title, trows) ==
    IF trows = <<>> THEN <<>>
    ELSE (IF IsNone(RowName(trows[1])) THEN <<>>
          ELSE <<FlatRow(bench_name, bench_data, cols, title, Val(RowName(trows[1])))>>)
         \o TemplateRows(bench_name, bench_data, cols, title, Tail(trows))

\* the rows appended for one benchmark: template by template
RECURSIVE BenchRows(_, _, _, _)
BenchRows(bench_name, bench_data, cols, templates) ==
    IF templates = <<>> THEN <<>>
    ELSE TemplateRows(bench_name, bench_data, cols, templates[1][1],
                      RowsOf(templates[1][2]))
         \o BenchRows(bench_name, bench_data, cols, Tail(templates))

\* rows: benchmark by benchmark, in sorted(data.keys()) order
RECURSIVE RowsFor(_, _, _)
RowsFor(d, benches, cols) ==
    IF benches = <<>> THEN <<>>
    ELSE LET bench_data == DictAt(d, benches[1])
         IN BenchRows(benches[1], bench_data, cols, TableTemplates(bench_data))
            \o RowsFor(d, Tail(benches), cols)

ComparisonRows(d, cols) == RowsFor(d, SortedStrings(SeqRange(DictKeys(d))), cols)

---------------------------------------------------------------------------
(* The inputs of build_comparison_table in the model.                      *)

t_Map == <<"M","a","p">>
t_Sort == <<"S","o","r","t">>
n_for_loop == <<"f","o","r"," ","l","o","o","p">>
n_zero == <<"z","e","r","o">>
n_std == <<"s","t","d">>
col_cycop == kw_cycop

\* one table "Map" with the row "for loop" at 10 ns/op
Report_A ==
    MkReport(<<>>, << MkTable(t_Map, <<col_nsop, t_Map>>,
                  << << <<col_nsop, IntV(10)>>, <<t_Map, StrV(n_for_loop)>> >> >>) >>, <<>>)

\* a relative table "Sort", then "Map" with "for loop" at 12 ns/op and a
\* row "zero" measured at 0 ns/op
Report_B ==
    MkReport(<<>>, << MkTable(t_Sort, <<col_relative, col_nsop, t_Sort>>,
                  << << <<col_relative, FloatV(1000, 1)>>, <<col_nsop, FloatV(25, 1)>>,
                        <<t_Sort, StrV(n_std)>> >> >>),
                MkTable(t_Map, <<col_nsop, t_Map>>,
                  << << <<col_nsop, IntV(12)>>, <<t_Map, StrV(n_for_loop)>> >>,
                     << <<col_nsop, IntV(0)>>, <<t_Map, StrV(n_zero)>> >> >>) >>, <<>>)

\* "Map" whose row "for loop" has neither an ns/op nor a relative column,
\* and a row without a name
Report_C ==
    MkReport(<<>>, << MkTable(t_Map, <<col_cycop, t_Map>>,
                  << << <<col_cycop, IntV(7)>>, <<t_Map, StrV(n_for_loop)>> >>,
                     << <<col_cycop, IntV(8)>>, <<t_Map, NoneV>> >> >>) >>, <<>>)

\* two tables titled "Map": the first has two rows named "for loop" (the
\* first with both ns/op and ns, both relative and relative_pct) and a row
\* without a name that has an ns/op value; the second has a row "zero" with
\* the columns ns and relative_pct only
Report_D ==
    MkReport(<<>>, << MkTable(t_Map, <<col_nsop, col_ns, col_relative, col_relative_pct, t_Map>>,
                  << << <<col_nsop, IntV(4)>>, <<col_ns, IntV(5)>>,
                        <<col_relative, IntV(60)>>, <<col_relative_pct, IntV(70)>>,
                        <<t_Map, StrV(n_for_loop)>> >>,
                     << <<col_nsop, IntV(8)>>, <<t_Map, StrV(n_for_loop)>> >>,
                     << <<col_nsop, IntV(9)>>, <<t_Map, NoneV>> >> >>),
                MkTable(t_Map, <<col_ns, col_relative_pct, t_Map>>,
                  << << <<col_ns, IntV(6)>>, <<col_relative_pct, IntV(50)>>,
                        <<t_Map, StrV(n_zero)>> >> >>) >>, <<>>)

\* the empty JSON object
Report_Empty == <<>>

Reports == {Report_A, Report_B, Report_C, Report_D, Report_Empty}

b_map == <<"m","a","p">>
b_dispatch == <<"d","i","s","p","a","t","c","h">>
Benches == {b_map, b_dispatch}

c_gcc13 == <<"g","c","c","-","1","3">>
c_clang19 == <<"c","l","a","n","g","-","1","9">>
c_icc == <<"i","c","c">>
c_msvc == <<"m","s","v","c">>
v_default == <<"d","e","f","a","u","l","t">>
v_native == <<"n","a","t","i","v","e">>
v_debug == <<"d","e","b","u","g">>

Compilers == {c_gcc13, c_clang19, c_icc, c_msvc}
Variants == {v_default, v_native, v_debug}

\* the run directories <compiler>/<variant> of the model
RunDirs == {<<c_gcc13, v_default>>, <<c_clang19, v_default>>, <<c_icc, v_default>>,
            <<c_msvc, v_default>>, <<c_gcc13, v_native>>, <<c_clang19, v_debug>>}

NumEntries(d) ==
    LET RECURSIVE Sum(_)
        Sum(k) == IF k > Len(d) THEN 0 ELSE Len(d[k][2]) + Sum(k + 1)
    IN Sum(1)

---------------------------------------------------------------------------
(* The aggregator as a state machine: the input mapping is filled entry by *)
(* entry, then build_comparison_table is applied to it.                    *)

AggInit ==
    /\ data = <<>> /\ agg = "loading" /\ sorted_cols = <<>> /\ out_rows = <<>>

\* data[bench_name][col] = parsed, with col = column_key(compiler, variant)
InsertEntry(d, bench_name, col, parsed) ==
    DictSet(d, bench_name, DictSet(DictGet(d, bench_name, <<>>), col, parsed))

Insert ==
    /\ agg = "loading"
    /\ NumEntries(data) < MaxEntries
    /\ \E bench_name \in Benches, run \in RunDirs, parsed \in Reports :
          data' = InsertEntry(data, bench_name, column_key(run[1], run[2]), parsed)
    /\ UNCHANGED <<agg, sorted_cols, out_rows>>
    /\ UNCHANGED <<parserVars, loaderVars, inlineVars>>

\* columns, rows = build_comparison_table(data)
Build ==
    /\ agg = "loading"
    /\ \E cols \in SortedColumnOrders(AllCols(data)) :
          /\ sorted_cols' = cols
          /\ out_rows' = ComparisonRows(data, cols)
    /\ agg' = "built"
    /\ UNCHANGED data
    /\ UNCHANGED <<parserVars, loaderVars, inlineVars>>

AggNext == Insert \/ Build

AggIdle ==
    /\ data = <<>> /\ agg = "idle" /\ sorted_cols = <<>> /\ out_rows = <<>>

---------------------------------------------------------------------------
(* The specification: one run of parse_bench_file on a text of the model,  *)
(* or one run of build_comparison_table on a mapping of the model.         *)

\* load_results is not running
LoaderIdle == files = <<>> /\ fidx = 1 /\ diags = <<>>

\* the project headers, each named by its resolved path
Headers == 1..MaxHeaders

\* inline_file is not running
InlineIdle ==
    /\ processed = {} /\ frames = <<>> /\ call = None
    /\ begun = [h \in Headers |-> 0] /\ ended = [h \in Headers |-> 0]
    /\ skipped = {} /\ inl = "idle"

Init == ((ParserInit /\ AggIdle) \/ (AggInit /\ ParserIdle)) /\ LoaderIdle /\ InlineIdle
Next == ParserNext \/ AggNext
Spec == Init /\ [][Next]_vars

\* one run of parse_bench_file alone
ParserStart == ParserInit /\ AggIdle /\ LoaderIdle /\ InlineIdle
ParserSpec == ParserStart /\ [][ParserNext]_vars

\* one run of build_comparison_table alone
AggStart == AggInit /\ ParserIdle /\ LoaderIdle /\ InlineIdle
AggSpec == AggStart /\ [][AggNext]_vars

---------------------------------------------------------------------------
(* analyze_bench.py: load_results.  A file of the walk is its path         *)
(* relative to the root, as the sequence of its parts, and what reading    *)
(* and decoding it gives: a JSON value, a json.JSONDecodeError, an OSError *)
(* or, for bytes that are not text in the encoding of read_text, a         *)
(* UnicodeDecodeError.                                                     *)

n_map_json == <<"m","a","p",".","j","s","o","n">>
n_dispatch_json == <<"d","i","s","p","a","t","c","h",".","j","s","o","n">>
n_sub == <<"s","u","b">>
suffix_json == <<".","j","s","o","n">>

p_run_map == <<c_gcc13, v_default, n_map_json>>
p_deep_map == <<c_gcc13, v_default, n_sub, n_map_json>>
p_shallow_map == <<c_gcc13, n_map_json>>
p_other_map == <<c_clang19, v_default, n_map_json>>
p_dispatch == <<c_icc, v_default, n_dispatch_json>>
Paths == {p_run_map, p_deep_map, p_shallow_map, p_other_map, p_dispatch}

JsonOf(parsed) == <<"json", parsed>>
JSONDecodeError == <<"JSONDecodeError">>
OSError == <<"OSError">>
UnicodeDecodeError == <<"UnicodeDecodeError">>
Contents == {JsonOf(Report_A), JsonOf(Report_B), JSONDecodeError, OSError,
             UnicodeDecodeError}

\* the order of Path objects: part by part, each part as a str
PathLess(p, q) ==
    \E k \in 1..(Len(p) + 1) :
        /\ k <= Len(q)
        /\ SubSeq(p, 1, k - 1) = SubSeq(q, 1, k - 1)
        /\ (k = Len(p) + 1 \/ StrLess(p[k], q[k]))

\* sorted(results_root.rglob("*.json")) for the files at the paths S
SortedPaths(S) ==
    CHOOSE sp \in Orderings(S) :
        \A j, k \in DOMAIN sp : j < k => PathLess(sp[j], sp[k])

\* the walks over files at the paths S, whatever the files hold
WalksOver(S) ==
    LET sp == SortedPaths(S)
    IN {[k \in 1..Len(sp) |-> [parts |-> sp[k], content |-> f[sp[k]]]] :
          f \in [S -> Contents]}

Walks == UNION {WalksOver(S) : S \in {X \in SUBSET Paths : Cardinality(X) <= MaxFiles}}

\* json_file.stem of a name that matches "*.json"
Stem(name) == SubSeq(name, 1, Len(name) - Len(suffix_json))

\* data = defaultdict(dict), before the loop
LoaderInit ==
    /\ files \in Walks
    /\ fidx = 1 /\ diags = <<>>
    /\ data = <<>> /\ agg = "walking" /\ sorted_cols = <<>> /\ out_rows = <<>>
    /\ ParserIdle /\ InlineIdle

InWalk == agg = "walking" /\ fidx <= Len(files)
\* if len(parts) < 3: continue
TooShallow(parts) == Len(parts) < 3

SkipDepth ==
    /\ InWalk
    /\ TooShallow(files[fidx].parts)
    /\ fidx' = fidx + 1
    /\ UNCHANGED <<files, diags>>
    /\ UNCHANGED <<parserVars, aggVars, inlineVars>>

\* except (json.JSONDecodeError, OSError): print a warning; continue
SkipUndecodable ==
    /\ InWalk
    /\ ~TooShallow(files[fidx].parts)
    /\ files[fidx].content \in {JSONDecodeError, OSError}
    /\ diags' = Append(diags, files[fidx].parts)
    /\ fidx' = fidx + 1
    /\ UNCHANGED files
    /\ UNCHANGED <<parserVars, aggVars, inlineVars>>

\* an exception that the except clause does not name leaves load_results
LoadRaises ==
    /\ InWalk
    /\ ~TooShallow(files[fidx].parts)
    /\ files[fidx].content = UnicodeDecodeError
    /\ agg' = "raised"
    /\ UNCHANGED <<data, sorted_cols, out_rows>>
    /\ UNCHANGED <<parserVars, loaderVars, inlineVars>>

\* data[bench_name][col] = parsed
LoadFile ==
    /\ InWalk
    /\ ~TooShallow(files[fidx].parts)
    /\ files[fidx].content[1] = "json"
    /\ LET parts == files[fidx].parts
       IN data' = InsertEntry(data, Stem(Last(parts)),
                              column_key(parts[1], parts[2]), files[fidx].content[2])
    /\ fidx' = fidx + 1
    /\ UNCHANGED <<files, diags>>
    /\ UNCHANGED <<agg, sorted_cols, out_rows>>
    /\ UNCHANGED <<parserVars, inlineVars>>

\* return dict(data)
LoaderReturn ==
    /\ agg = "walking"
    /\ fidx > Len(files)
    /\ agg' = "loaded"
    /\ UNCHANGED <<data, sorted_cols, out_rows>>
    /\ UNCHANGED <<parserVars, loaderVars, inlineVars>>

LoaderNext == SkipDepth \/ SkipUndecodable \/ LoadRaises \/ LoadFile \/ LoaderReturn
LoaderSpec == LoaderInit /\ [][LoaderNext]_vars

---------------------------------------------------------------------------
(* amalgamate.py: inline_file.  A project header is named by its resolved  *)
(* path.  A file is read once at most, in the call that enters it, so its  *)
(* lines are drawn when the loop of that call meets them: an include that  *)
(* find_project_header resolves to a project header, or any other line.    *)
(* A call in progress is a frame <<path, lines read>>.  The output is kept *)
(* as the count of the BEGIN_FILE and END_FILE lines of each file and the  *)
(* set of the skip markers: a marker holds the path and whether the call   *)
(* for that path was still in progress when the marker was emitted.        *)

\* (mutation of Mark: the path is not recorded)
MarkNothing(done, path) == done

\* processed.add(str(path))
Mark(done, path) == done \cup {path}

Frame(path, n) == <<path, n>>
Top == frames[Len(frames)]
InProgress(path) == \E k \in 1..Len(frames) : frames[k][1] = path

\* build_single_header: processed = set(); inline_file(input_path, ...)
InlineInit ==
    /\ processed = {} /\ frames = <<>>
    /\ call \in {Some(h) : h \in Headers}
    /\ begun = [h \in Headers |-> 0] /\ ended = [h \in Headers |-> 0]
    /\ skipped = {} /\ inl = "running"
    /\ ParserIdle /\ AggIdle /\ LoaderIdle

\* the call returns its text to the caller, or to build_single_header
Returned(fs) == IF fs = <<>> THEN "done" ELSE "running"

\* if str(path) in processed: return the "Skipped already inlined" marker
EnterSkip ==
    /\ inl = "running" /\ ~IsNone(call)
    /\ Val(call) \in processed
    /\ skipped' = skipped \cup {<<Val(call), InProgress(Val(call))>>}
    /\ call' = None
    /\ inl' = Returned(frames)
    /\ UNCHANGED <<processed, frames, begun, ended>>
    /\ UNCHANGED <<parserVars, aggVars, loaderVars>>

\* processed.add; read_text; strip_header_guard; the BEGIN_FILE line
EnterRead ==
    /\ inl = "running" /\ ~IsNone(call)
    /\ Val(call) \notin processed
    /\ processed' = Mark(processed, Val(call))
    /\ begun' = [begun EXCEPT ![Val(call)] = @ + 1]
    /\ frames' = Append(frames, Frame(Val(call), 0))
    /\ call' = None
    /\ UNCHANGED <<ended, skipped, inl>>
    /\ UNCHANGED <<parserVars, aggVars, loaderVars>>

\* processed.add; read_text raises (a directory, bytes that are not UTF-8):
\* the exception leaves every call in progress
EnterRaises ==
    /\ inl = "running" /\ ~IsNone(call)
    /\ Val(call) \notin processed
    /\ processed' = Mark(processed, Val(call))
    /\ call' = None
    /\ inl' = "raised"
    /\ UNCHANGED <<frames, begun, ended, skipped>>
    /\ UNCHANGED <<parserVars, aggVars, loaderVars>>

InBody == inl = "running" /\ IsNone(call) /\ frames # <<>>
MoreLines == Top[2] < MaxBodyLines
NextLine == [frames EXCEPT ![Len(frames)] = Frame(Top[1], Top[2] + 1)]

\* an #include line, quoted or angle, that resolves to a project header:
\* the "Begin inline" comment, then the call
IncludeLine ==
    /\ InBody /\ MoreLines
    /\ \E inc_path \in Headers : call' = Some(inc_path)
    /\ frames' = NextLine
    /\ UNCHANGED <<processed, begun, ended, skipped, inl>>
    /\ UNCHANGED <<parserVars, aggVars, loaderVars>>

\* an #include line that does not resolve, or a normal line: kept as it is
OtherLine ==
    /\ InBody /\ MoreLines
    /\ frames' = NextLine
    /\ UNCHANGED <<processed, call, begun, ended, skipped, inl>>
    /\ UNCHANGED <<parserVars, aggVars, loaderVars>>

\* the lines are used up: the END_FILE line, and the call returns
EndFile ==
    /\ InBody
    /\ ended' = [ended EXCEPT ![Top[1]] = @ + 1]
    /\ frames' = Front(frames)
    /\ inl' = Returned(Front(frames))
    /\ UNCHANGED <<processed, call, begun, skipped>>
    /\ UNCHANGED <<parserVars, aggVars, loaderVars>>

InlineNext ==
    EnterSkip \/ EnterRead \/ EnterRaises \/ IncludeLine \/ OtherLine \/ EndFile
InlineSpec == InlineInit /\ [][InlineNext]_vars

\* two calls of parse_bench_file on one text, one after the other
TwiceInit == ParserInit /\ AggIdle /\ LoaderIdle /\ InlineIdle
TwiceNext == ParserNext \/ ParseAgain
TwiceSpec == TwiceInit /\ [][TwiceNext]_vars

---------------------------------------------------------------------------
(* Vocabulary of the properties.                                           *)

Built == agg = "built"
ParserDone == phase = "done"

\* the fields of a ComparisonRow
BenchOf(o) == DictAt(o, key_bench).s
TableTitleOf(o) == DictAt(o, key_table_title).s
NameOf(o) == DictAt(o, key_name).s
\* the recorded cell pair of a ComparisonRow for a RunKey
HasCell(o, K) == DictHas(o, K \o suffix_nsop) /\ DictHas(o, K \o suffix_rel)
CellPair(o, K) == <<DictAt(o, K \o suffix_nsop), DictAt(o, K \o suffix_rel)>>

\* the union of the RunKeys over all benchmarks of the input
RunKeyUnion ==
    UNION {{data[b][2][e][1] : e \in 1..Len(data[b][2])} : b \in 1..Len(data)}

\* the rows named N of the tables titled T of a Report
NamedRows(parsed, T, N) ==
    {r \in UNION {SeqRange(RowsOf(tb)) :
                     tb \in {x \in SeqRange(TablesOf(parsed)) : TitleOf(x) = T}} :
        RowName(r) = Some(N)}

\* RunKey K reports a row N in a table T for benchmark B
RunHasRow(B, K, T, N) ==
    /\ DictHas(data, B)
    /\ DictHas(DictAt(data, B), K)
    /\ NamedRows(DictAt(DictAt(data, B), K), T, N) # {}

\* the ComparisonRows emitted for (B, T, N)
RowsEmitted(B, T, N) ==
    {o \in SeqRange(out_rows) : BenchOf(o) = B /\ TableTitleOf(o) = T /\ NameOf(o) = N}

---------------------------------------------------------------------------
(* C1. Coverage invariant of build_comparison_table: for every benchmark B *)
(* and table title T that appears in a run's Report for B, every row name  *)
(* present in at least one run's version of T has a ComparisonRow (B, T,   *)
(* name), which holds the no-data marker for every RunKey that does not    *)
(* report the row.                                                         *)
(* Stated as the claim; the code takes the row names from the first table  *)
(* met for a title only, so the formula is violated.                       *)
C1_Coverage ==
    Built =>
      \A b \in 1..Len(data) : \A e \in 1..Len(data[b][2]) :
        \A tb \in SeqRange(TablesOf(data[b][2][e][2])) :
          \A r \in SeqRange(RowsOf(tb)) :
            ~IsNone(RowName(r)) =>
              \E o \in RowsEmitted(data[b][1], TitleOf(tb), Val(RowName(r))) :
                 \A K \in RunKeyUnion :
                    ~RunHasRow(data[b][1], K, TitleOf(tb), Val(RowName(r)))
                       => HasCell(o, K) /\ CellPair(o, K) = <<NoData, NoData>>

---------------------------------------------------------------------------
(* C2. Column completeness: every ComparisonRow emitted carries a cell     *)
(* pair (<runkey>_nsop, <runkey>_rel) for exactly the RunKeys of the union *)
(* over all benchmarks of the input, whatever the benchmark of the row,    *)
(* and the column list returned is that union.                             *)
C2_ColumnCompleteness ==
    Built =>
      /\ SeqRange(sorted_cols) = RunKeyUnion
      /\ \A o \in SeqRange(out_rows) :
            SeqRange(DictKeys(o)) =
               {key_bench, key_table_title, key_name}
                  \cup {K \o suffix_nsop : K \in RunKeyUnion}
                  \cup {K \o suffix_rel : K \in RunKeyUnion}

\* a row of one benchmark carries the cell of a RunKey that only another
\* benchmark has
C2_Witness ==
    /\ Built
    /\ \E o \in SeqRange(out_rows) : \E K \in RunKeyUnion :
          /\ ~DictHas(DictAt(data, BenchOf(o)), K)
          /\ HasCell(o, K)

---------------------------------------------------------------------------
(* C3. Determinism under input order: two inputs that hold the same        *)
(* Reports under the same (benchmark, RunKey) keys, inserted in a          *)
(* different order, give the same column order and the same sequence of    *)
(* ComparisonRows.                                                         *)
(* Stated as the claim: the result of the run is the result of every run   *)
(* on every reordering of its input.  Violated: the template of a title is *)
(* the first table met in insertion order, and tied columns come out in    *)
(* set iteration order.                                                    *)

\* the insertion orders of one dict
DictOrders(d) == Orderings(SeqRange(d))
\* the mappings equal to d up to insertion order (of benchmarks and of the
\* RunKeys of each benchmark)
Reorderings(d) ==
    {p \in [1..Len(d) -> UNION {{<<d[b][1], bd>> : bd \in DictOrders(d[b][2])} :
                                    b \in 1..Len(d)}] :
        \A j, k \in DOMAIN p : j # k => p[j][1] # p[k][1]}

C3_OrderIndependent ==
    Built =>
      \A d2 \in Reorderings(data) :
        \A cols2 \in SortedColumnOrders(AllCols(d2)) :
           /\ cols2 = sorted_cols
           /\ ComparisonRows(d2, cols2) = out_rows

---------------------------------------------------------------------------
(* C6. No-data marker.                                                     *)
(* As claimed: the cell of RunKey K in the ComparisonRow (B, T, N) is the  *)
(* no-data marker (the empty string for _nsop and for _rel) exactly when K *)
(* has no Report for B, or the Report has no table titled T, or the table  *)
(* has no row named N.  Violated: a row that exists but has none of the    *)
(* columns ns/op, ns, relative, relative_pct gives the empty strings too.  *)
C6_NoDataExactly ==
    Built =>
      \A o \in SeqRange(out_rows) : \A K \in RunKeyUnion :
         (CellPair(o, K) = <<NoData, NoData>>)
            <=> ~RunHasRow(BenchOf(o), K, TableTitleOf(o), NameOf(o))

\* the value a row holds under the first of two column names that it has
ValueUnder(r, first, second) ==
    IF DictHas(r, first) THEN Some(DictAt(r, first))
    ELSE IF DictHas(r, second) THEN Some(DictAt(r, second))
    ELSE None

(* C6, amended: the cell of K is the no-data marker whenever K has no      *)
(* Report for B, or the Report has no table titled T, or no such table has *)
(* a row named N; when such a row exists, the cell holds the values of one *)
(* such row: _nsop is the value of its ns/op (else ns) column as it stands *)
(* (a measured 0 is emitted as 0), and is the empty string when the row    *)
(* has neither column; likewise _rel for relative, relative_pct.  A RunKey *)
(* with no file for B is still a column of every row of B.                 *)
C6_NoDataMarker ==
    Built =>
      \A o \in SeqRange(out_rows) : \A K \in RunKeyUnion :
         /\ HasCell(o, K)
         /\ ~RunHasRow(BenchOf(o), K, TableTitleOf(o), NameOf(o))
               => CellPair(o, K) = <<NoData, NoData>>
         /\ RunHasRow(BenchOf(o), K, TableTitleOf(o), NameOf(o))
               => \E r \in NamedRows(DictAt(DictAt(data, BenchOf(o)), K),
                                     TableTitleOf(o), NameOf(o)) :
                     /\ CellPair(o, K)[1] =
                           (IF IsNone(ValueUnder(r, col_nsop, col_ns)) THEN NoData
                            ELSE Val(ValueUnder(r, col_nsop, col_ns)))
                     /\ CellPair(o, K)[2] =
                           (IF IsNone(ValueUnder(r, col_relative, col_relative_pct))
                            THEN NoData
                            ELSE Val(ValueUnder(r, col_relative, col_relative_pct)))

\* one row holds a measured 0 for one RunKey and the no-data marker for a
\* RunKey that has no Report for the benchmark
C6_Witness ==
    /\ Built
    /\ \E o \in SeqRange(out_rows) : \E K1, K2 \in RunKeyUnion :
          /\ CellPair(o, K1)[1] = IntV(0)
          /\ ~DictHas(DictAt(data, BenchOf(o)), K2)
          /\ CellPair(o, K2) = <<NoData, NoData>>

---------------------------------------------------------------------------
(* C7. The Run Ordering Policy is a total, deterministic order: two        *)
(* distinct RunKeys never tie; RunKeys of one variant whose compilers are  *)
(* both unrecognized come in string order.                                 *)
(* Stated as the claim; every unrecognized compiler has the key (100, 0),  *)
(* so such RunKeys tie and come out in set iteration order: violated.      *)
C7_TotalOrder ==
    Built =>
      \A j, k \in DOMAIN sorted_cols :
         j < k =>
            \/ ColumnSortKey(sorted_cols[j]) # ColumnSortKey(sorted_cols[k])
            \/ StrLess(sorted_cols[j], sorted_cols[k])

---------------------------------------------------------------------------
(* C8. Column grouping: the columns returned are ordered by (variant rank, *)
(* compiler rank): every default column precedes every native column,      *)
(* every column of an unrecognized variant comes after both, and within    *)
(* one variant the recognized compilers come in the preference order       *)
(* (gcc-12..gcc-15, clang-18..clang-22), before every unrecognized one.    *)
Recognized(c) == c \in SeqRange(COMPILER_ORDER)
C8_ColumnGrouping ==
    Built =>
      \A j, k \in DOMAIN sorted_cols :
        \A c1, c2 \in Compilers : \A v1, v2 \in Variants :
          (sorted_cols[j] = column_key(c1, v1) /\ sorted_cols[k] = column_key(c2, v2)) =>
             /\ (v1 = v_default /\ v2 = v_native) => j < k
             /\ (v1 \in {v_default, v_native} /\ v2 \notin {v_default, v_native}) => j < k
             /\ (v1 = v2 /\ Recognized(c1) /\ Recognized(c2)
                   /\ IndexOf(COMPILER_ORDER, c1) < IndexOf(COMPILER_ORDER, c2)) => j < k
             /\ (v1 = v2 /\ Recognized(c1) /\ ~Recognized(c2)) => j < k

\* a default column of a later compiler stands before a native column of an
\* earlier one
C8_Witness ==
    /\ Built
    /\ sorted_cols = <<column_key(c_clang19, v_default), column_key(c_gcc13, v_native)>>

---------------------------------------------------------------------------
(* Vocabulary of the parser properties.                                    *)

\* the step of Phase 2 over line i
ScansLine == phase = "tables" /\ i <= Len(lines) /\ i' = i + 1
\* the step over a header line, and the non-empty fields of that line
HeaderStep == ScansLine /\ LineClass(lines[i], header_cols) = "header"
LineFields == Fields(Strip(lines[i]))
\* a table is appended by the step
AppendsTable == Len(tables') = Len(tables) + 1

---------------------------------------------------------------------------
(* C4. Never lose a row: a row accepted under an active header (appended   *)
(* to the accumulating rows) is never discarded by a later line without    *)
(* being flushed into tables, and the rows still accumulating at the end   *)
(* of the input are in the returned Report.                                *)
(* Stated as the claim; the code empties the accumulating rows on a header *)
(* line without flushing them, so the formula is violated.                 *)
C4_NeverLoseRow ==
    [][ /\ \A k \in 1..Len(rows) :
              \/ (k <= Len(rows') /\ rows'[k] = rows[k])
              \/ (AppendsTable /\ rows[k] \in SeqRange(RowsOf(Last(tables'))))
        /\ (phase' = "done" /\ rows # <<>>) =>
              (tables' # <<>> /\ RowsOf(Last(tables')) = rows)
      ]_vars

---------------------------------------------------------------------------
(* C5. Table invariant of the parser output: in every table emitted, each  *)
(* row holds as many values as the table has columns (also when column     *)
(* names repeat), a missing trailing cell being an explicit null.          *)
(* Stated as the claim; a row is a dict keyed by column name, so a         *)
(* repeated column name leaves one value for two columns: violated.        *)
C5_RowWidth ==
    \A tb \in SeqRange(tables) : \A r \in SeqRange(RowsOf(tb)) :
        Len(r) = Len(ColumnsOf(tb))

---------------------------------------------------------------------------
(* C9. Header with embedded title.                                         *)
(* As claimed: on a header line whose last non-empty field is not a        *)
(* recognized metric name (it holds none of ns/op, op/s, err%, cyc/op),    *)
(* the title becomes that field and the columns are the remaining fields   *)
(* only.  Violated: the code keeps the title field as the last column.     *)

\* a field that is not recognized as a metric name: it holds none of the
\* names, letter case ignored
HoldsNoMetric(field) ==
    \A kw \in MetricKeywords : ~Contains(Lower(field), kw)

C9_TitleNotAColumn ==
    [][ (HeaderStep /\ HoldsNoMetric(Last(LineFields))) =>
           /\ current_title' = Some(Last(LineFields))
           /\ header_cols' = Some(Front(LineFields))
      ]_vars

(* C9, amended: on a header line whose last non-empty field is not a       *)
(* recognized metric name (it holds none of the names as a substring,      *)
(* letter case ignored), the title becomes that field and the columns are  *)
(* all the fields of the header,                                           *)
(* the title field included as the last column, and the table is emitted   *)
(* with these columns.                                                     *)
C9_TitleIsLastColumn ==
    [][ /\ (HeaderStep /\ HoldsNoMetric(Last(LineFields))) =>
              /\ current_title' = Some(Last(LineFields))
              /\ header_cols' = Some(LineFields)
        /\ (AppendsTable /\ HoldsNoMetric(Last(Val(header_cols)))) =>
              ColumnsOf(Last(tables')) = Val(header_cols)
      ]_vars

\* a table read under a title-bearing header has been emitted
C9_Witness ==
    /\ ParserDone
    /\ lines = <<L_header_title, L_row_full>>
    /\ Len(tables) = 1
    /\ TitleOf(tables[1]) = t_Map
    /\ Last(ColumnsOf(tables[1])) = t_Map

---------------------------------------------------------------------------
(* C10. Header without embedded title: when the last field of a header     *)
(* line is a recognized metric name, all the fields become the columns and *)
(* the title stays as last set; a table flushed while no title was ever    *)
(* set (no title line, no title-bearing header) has the empty string as    *)
(* title, and the text is parsed to the end.                               *)
C10_PlainHeader ==
    [][ /\ (HeaderStep /\ ~HoldsNoMetric(Last(LineFields))) =>
              /\ header_cols' = Some(LineFields)
              /\ current_title' = current_title
        /\ (AppendsTable /\ IsNone(current_title)) =>
              TitleOf(Last(tables')) = <<>>
        /\ (AppendsTable /\ ~IsNone(current_title)) =>
              TitleOf(Last(tables')) = Val(current_title)
      ]_vars

\* the text "| for loop | ns/op | err% |" with one data row is parsed to
\* the end, into one table with the empty title and the three columns
C10_Witness ==
    /\ ParserDone
    /\ lines = <<L_header_plain, L_row_full>>
    /\ Len(tables) = 1
    /\ TitleOf(tables[1]) = <<>>
    /\ Len(ColumnsOf(tables[1])) = 3
    /\ IsNone(current_title)

---------------------------------------------------------------------------
(* C11. ComparisonRows are identified by their triple: no two rows of the  *)
(* output of build_comparison_table share the same (bench, table_title,    *)
(* name), also when a template table has two rows of one name or a Report  *)
(* has two tables of one title.                                            *)
(* Stated as the claim; the code appends one row per named template row,   *)
(* so a template with two rows of one name gives two rows of one triple:   *)
(* violated.                                                               *)
C11_OneRowPerTriple ==
    Built =>
      \A j, k \in DOMAIN out_rows :
         j # k => <<BenchOf(out_rows[j]), TableTitleOf(out_rows[j]), NameOf(out_rows[j])>>
                     # <<BenchOf(out_rows[k]), TableTitleOf(out_rows[k]), NameOf(out_rows[k])>>

---------------------------------------------------------------------------
(* C12. Unnamed rows are skipped, not errors: a row with no string-valued  *)
(* cell gives no ComparisonRow when it stands in a template table, is      *)
(* never matched to a row name when it stands in another run's table, and  *)
(* never makes build_comparison_table fail.                                *)

\* a row with a string-valued cell
HasStr(r) == \E k \in 1..Len(r) : IsStr(r[k][2])
\* the number of rows of a sequence of rows that have a string-valued cell
NamedCount(rs) == Cardinality({k \in 1..Len(rs) : HasStr(rs[k])})
\* the number of such rows over the template tables of one benchmark
RECURSIVE TemplateNamedCount(_)
TemplateNamedCount(templates) ==
    IF templates = <<>> THEN 0
    ELSE NamedCount(RowsOf(templates[1][2])) + TemplateNamedCount(Tail(templates))
\* the rows with a string-valued cell in the tables titled T of a Report
StrRowsTitled(parsed, T) ==
    {r \in UNION {SeqRange(RowsOf(tb)) :
                     tb \in {x \in SeqRange(TablesOf(parsed)) : TitleOf(x) = T}} :
        HasStr(r)}

\* build_comparison_table returns a result for the mapping: the guard of Build
BuildReturns == \E cols \in SortedColumnOrders(AllCols(data)) : TRUE

C12_UnnamedSkipped ==
    /\ agg = "loading" => BuildReturns
    /\ Built =>
         /\ \A b \in 1..Len(data) :
               Cardinality({k \in DOMAIN out_rows : BenchOf(out_rows[k]) = data[b][1]})
                  = TemplateNamedCount(TableTemplates(data[b][2]))
         /\ \A o \in SeqRange(out_rows) :
               /\ IsStr(DictAt(o, key_name))
               /\ \A K \in RunKeyUnion :
                     \/ CellPair(o, K) = <<NoData, NoData>>
                     \/ /\ DictHas(DictAt(data, BenchOf(o)), K)
                        /\ \E r \in StrRowsTitled(DictAt(DictAt(data, BenchOf(o)), K),
                                                  TableTitleOf(o)) :
                              CellPair(o, K) = <<NsopOf(r), RelOf(r)>>

\* a benchmark whose template table has a row without a name and whose
\* second run has a row without a name that holds an ns/op value, built
\* into at least one ComparisonRow
C12_Witness ==
    /\ Built
    /\ \E b \in 1..Len(data) :
          /\ Len(data[b][2]) = 2
          /\ \E tp \in SeqRange(TableTemplates(data[b][2])) :
                \E r \in SeqRange(RowsOf(tp[2])) : ~HasStr(r)
          /\ \E tb \in SeqRange(TablesOf(data[b][2][2][2])) :
                \E r \in SeqRange(RowsOf(tb)) : ~HasStr(r) /\ DictHas(r, col_nsop)
          /\ \E o \in SeqRange(out_rows) : BenchOf(o) = data[b][1]

---------------------------------------------------------------------------
(* C18. Cell lookup: when the Report of RunKey K for the benchmark has a   *)
(* table titled T with a row whose name (its first string-valued cell) is  *)
(* N, the ComparisonRow (B, T, N) carries for K the values of the first    *)
(* such row, in table order then row order: _nsop is its ns/op column if   *)
(* it has one, otherwise its ns column; _rel is its relative column if it  *)
(* has one, otherwise relative_pct (the empty string when the row has      *)
(* neither column of a pair).                                              *)

\* N is the first string-valued cell of row r
NamedAs(r, N) ==
    \E k \in 1..Len(r) :
        /\ IsStr(r[k][2]) /\ r[k][2].s = N
        /\ \A j \in 1..(k - 1) : ~IsStr(r[j][2])
\* the positions <<table, row>> of the rows named N in the tables titled T
Hits(parsed, T, N) ==
    {h \in UNION {{<<ti, ri>> : ri \in 1..Len(RowsOf(TablesOf(parsed)[ti]))} :
                     ti \in 1..Len(TablesOf(parsed))} :
        /\ TitleOf(TablesOf(parsed)[h[1]]) = T
        /\ NamedAs(RowsOf(TablesOf(parsed)[h[1]])[h[2]], N)}
\* the first of them, in table order then row order
FirstHit(hs) ==
    CHOOSE h \in hs : \A g \in hs : h[1] < g[1] \/ (h[1] = g[1] /\ h[2] <= g[2])
\* the value of the first of two columns that the row has, else ""
Preferred(r, first, second) ==
    IF IsNone(ValueUnder(r, first, second)) THEN NoData
    ELSE Val(ValueUnder(r, first, second))

C18_CellLookup ==
    Built =>
      \A o \in SeqRange(out_rows) : \A K \in RunKeyUnion :
         DictHas(DictAt(data, BenchOf(o)), K) =>
            LET parsed == DictAt(DictAt(data, BenchOf(o)), K)
                hs == Hits(parsed, TableTitleOf(o), NameOf(o))
            IN hs # {} =>
                 LET r == RowsOf(TablesOf(parsed)[FirstHit(hs)[1]])[FirstHit(hs)[2]]
                 IN /\ HasCell(o, K)
                    /\ CellPair(o, K) =
                          <<Preferred(r, col_nsop, col_ns),
                            Preferred(r, col_relative, col_relative_pct)>>

\* two runs report ns/op 10 and 12 for the row "for loop" of "Map": the one
\* ComparisonRow of the row carries 10 and 12 under the two RunKeys
C18_Witness ==
    /\ Built
    /\ Cardinality({k \in DOMAIN out_rows :
                       NameOf(out_rows[k]) = n_for_loop /\ TableTitleOf(out_rows[k]) = t_Map}) = 1
    /\ \E o \in SeqRange(out_rows) :
          /\ NameOf(o) = n_for_loop /\ TableTitleOf(o) = t_Map
          /\ HasCell(o, column_key(c_gcc13, v_default))
          /\ HasCell(o, column_key(c_clang19, v_default))
          /\ CellPair(o, column_key(c_gcc13, v_default))[1] = IntV(10)
          /\ CellPair(o, column_key(c_clang19, v_default))[1] = IntV(12)

---------------------------------------------------------------------------
(* C19. Output order: ComparisonRows come with benchmark names ascending;  *)
(* within one benchmark the rows of one table title are contiguous and the *)
(* titles come in the order in which they were first met across the        *)
(* benchmark's Reports; within one title the rows come in the order of the *)
(* rows of the template table (the first table met with the title).        *)

\* the position at which title T is first met among the tables of the
\* Reports of one benchmark, Report by Report and table by table
Discovery(bench_data, T) ==
    Min({k \in 1..Len(TablesInOrder(bench_data)) :
            TitleOf(TablesInOrder(bench_data)[k]) = T})
\* the names of the rows that have a name, in row order
RECURSIVE NamesInOrder(_)
NamesInOrder(rs) ==
    IF rs = <<>> THEN <<>>
    ELSE (IF HasStr(rs[1]) THEN <<Val(RowName(rs[1]))>> ELSE <<>>)
         \o NamesInOrder(Tail(rs))
\* the names of the ComparisonRows of (B, T), in output order
RECURSIVE EmittedNames(_, _, _)
EmittedNames(os, B, T) ==
    IF os = <<>> THEN <<>>
    ELSE (IF BenchOf(os[1]) = B /\ TableTitleOf(os[1]) = T
          THEN <<NameOf(os[1])>> ELSE <<>>)
         \o EmittedNames(Tail(os), B, T)

C19_OutputOrder ==
    Built =>
      /\ \A j, k \in DOMAIN out_rows :
            j < k =>
              LET B1 == BenchOf(out_rows[j])
                  B2 == BenchOf(out_rows[k])
              IN /\ B1 = B2 \/ StrLess(B1, B2)
                 /\ B1 = B2 =>
                       Discovery(DictAt(data, B1), TableTitleOf(out_rows[j]))
                          <= Discovery(DictAt(data, B1), TableTitleOf(out_rows[k]))
      /\ \A o \in SeqRange(out_rows) :
            LET bd == DictAt(data, BenchOf(o))
                T == TableTitleOf(o)
            IN EmittedNames(out_rows, BenchOf(o), T)
                 = NamesInOrder(RowsOf(TablesInOrder(bd)[Discovery(bd, T)]))

\* the benchmark inserted second comes first in the output, and one
\* benchmark has rows of "Sort", met first, before rows of "Map", and two
\* rows of one title
C19_Witness ==
    /\ Built
    /\ Len(data) = 2
    /\ out_rows # <<>>
    /\ BenchOf(out_rows[1]) = data[2][1]
    /\ BenchOf(out_rows[Len(out_rows)]) = data[1][1]
    /\ \E j, k \in DOMAIN out_rows :
          /\ j < k /\ BenchOf(out_rows[j]) = BenchOf(out_rows[k])
          /\ TableTitleOf(out_rows[j]) = t_Sort /\ TableTitleOf(out_rows[k]) = t_Map
    /\ \E j, k \in DOMAIN out_rows :
          /\ j < k /\ BenchOf(out_rows[j]) = BenchOf(out_rows[k])
          /\ TableTitleOf(out_rows[j]) = TableTitleOf(out_rows[k])
          /\ NameOf(out_rows[j]) # NameOf(out_rows[k])

---------------------------------------------------------------------------
(* C20. Short data rows are padded, not dropped: a line that contains "|"  *)
(* while a header is active and has fewer non-empty fields than the header *)
(* has columns (a single field included) is appended as a row in which     *)
(* each missing trailing column holds an explicit null.                    *)
(* Stated as the claim; the code appends a row only when the line has at   *)
(* least two fields, so a line with a single field is dropped: violated.   *)

\* the step over a line that is read as a data row
RowStep == ScansLine /\ LineClass(lines[i], header_cols) = "row"

C20_ShortRowPadded ==
    [][ (RowStep /\ Len(LineFields) >= 1 /\ Len(LineFields) < Len(Val(header_cols))) =>
           /\ Len(rows') = Len(rows) + 1
           /\ \A ci \in (Len(LineFields) + 1)..Len(Val(header_cols)) :
                 /\ DictHas(Last(rows'), Val(header_cols)[ci])
                 /\ DictAt(Last(rows'), Val(header_cols)[ci]) = NoneV
      ]_vars

---------------------------------------------------------------------------
(* C16. Cell coercion is total and typed by rule: commas and "%" are       *)
(* stripped from the token; a token whose cleaned form contains "." and    *)
(* parses as a number becomes a float, a token whose cleaned form parses   *)
(* as an integer becomes an integer, every other token stays the trimmed   *)
(* string it was; "1,234" gives 1234, "12.50%" gives 12.5, "n/a" stays     *)
(* "n/a".  Every line read as a data row is stepped over, whatever its     *)
(* tokens.                                                                 *)

t_1234 == <<"1",",","2","3","4">>
t_1250pct == <<"1","2",".","5","0","%">>
t_na == <<"n","/","a">>

\* the token without its commas and "%" characters, trimmed
Stripped(tok) ==
    LET Keep(c) == c \notin {",", "%"} IN Strip(SelectSeq(tok, Keep))
\* the type the rule gives to a token
RuleType(tok) ==
    IF Contains(Stripped(tok), <<".">>) /\ IsFloatLit(Stripped(tok)) THEN "float"
    ELSE IF ~Contains(Stripped(tok), <<".">>) /\ IsIntLit(Stripped(tok)) THEN "int"
    ELSE "str"
\* the columns of the header that a data row with these fields fills last
\* with the field at the same position
FilledBy(cols, parts) ==
    {ci \in 1..Min({Len(cols), Len(parts)}) :
        \A cj \in (ci + 1)..Len(cols) : cols[cj] # cols[ci]}

C16_CoercionByRule ==
    [][ (RowStep /\ Len(LineFields) >= 2) =>
           /\ Len(rows') = Len(rows) + 1
           /\ \A ci \in FilledBy(Val(header_cols), LineFields) :
                 LET tok == LineFields[ci]
                     v == DictAt(Last(rows'), Val(header_cols)[ci])
                 IN /\ v.t = RuleType(tok)
                    /\ v.t = "float" => v = FloatValue(Stripped(tok))
                    /\ v.t = "int" => v = IntV(IntValue(Stripped(tok)))
                    /\ v.t = "str" => v = StrV(tok)
                    /\ tok = t_1234 => v = IntV(1234)
                    /\ tok = t_1250pct => v = FloatV(125, 1)
                    /\ tok = t_na => v = StrV(t_na)
      ]_vars

\* the row "| 1,234 | 12.50% | n/a |" has been read under a header of three
\* columns: the table holds 1234, 12.5 and "n/a"
C16_Witness ==
    /\ ParserDone
    /\ \E tb \in SeqRange(tables) : \E r \in SeqRange(RowsOf(tb)) :
          /\ Len(r) = 3
          /\ r[1][2] = IntV(1234)
          /\ r[2][2] = [t |-> "float", n |-> 125, e |-> 1, s |-> <<>>]
          /\ r[3][2] = StrV(t_na)

---------------------------------------------------------------------------
(* C13. The parser is total and terminates: every state of a call that    *)
(* has not returned has a step to take (no line and no position is left    *)
(* without a handler); every iteration of the preamble loop and of the     *)
(* table loop advances the line index by one or leaves the loop, the       *)
(* loops are left in the order preamble, tables, return, and the index     *)
(* never passes the end of the lines, so a call takes at most              *)
(* Len(lines) + 2 steps; a line of no class is passed over with nothing    *)
(* else changed.                                                           *)

Running == phase \in {"preamble", "tables"}
LineClasses == {"warning", "blank", "separator", "header", "title", "row", "ignored"}
\* the state has a handler: the preamble loop takes one of its three
\* branches or breaks, the table loop finds the class of its line and, for
\* a data row, the header to read it under, and the end of the lines leads
\* to the return
HasHandler ==
    /\ InPreamble =>
          \/ Strip(lines[i]) = <<>>
          \/ IsSectionLine(Strip(lines[i])) /\ SectionName(Strip(lines[i])) # <<>>
          \/ ~IsSectionLine(Strip(lines[i])) /\ IsKeyValueLine(Strip(lines[i]))
                /\ KeyOf(Strip(lines[i])) # <<>> /\ ValueOf(Strip(lines[i])) # <<>>
          \/ ~IsSectionLine(Strip(lines[i])) /\ ~IsKeyValueLine(Strip(lines[i]))
    /\ InTables =>
          /\ LineClass(lines[i], header_cols) \in LineClasses
          /\ LineClass(lines[i], header_cols) = "row" => ~IsNone(header_cols)
    /\ Running => i <= Len(lines) + 1
\* one iteration: the index advances by one inside the loop, or the loop is
\* left with the index as it is
Advances == i' = i + 1 /\ phase' = phase /\ i <= Len(lines)
LeavesLoop ==
    /\ i' = i
    /\ <<phase, phase'>> \in {<<"preamble", "tables">>, <<"tables", "done">>}

C13_ParserTerminates ==
    /\ []HasHandler
    /\ [][ Running =>
             /\ Advances \/ LeavesLoop
             /\ lines' = lines
             /\ (ScansLine /\ LineClass(lines[i], header_cols) = "ignored") =>
                    UNCHANGED <<metadata, tables, warnings, current_title,
                                header_cols, rows>>
         ]_vars

\* a text of MaxLines lines whose last line has no class has been parsed to
\* the end
C13_Witness ==
    /\ ParserDone
    /\ Len(lines) = MaxLines
    /\ i = Len(lines) + 1
    /\ lines[Len(lines)] = L_row_single
    /\ IsNone(header_cols)
    /\ tables = <<>>

---------------------------------------------------------------------------
---------------------------------------------------------------------------
(* Vocabulary of the loader properties.                                    *)

Loaded == agg = "loaded"
\* the (benchmark, RunKey) a file stands for
BenchKey(parts) == Stem(Last(parts))
RunKeyOf(parts) == column_key(parts[1], parts[2])
\* the file can be read and decoded
Decodable(f) == f.content[1] = "json"
\* the positions of the decodable files of depth at least three that stand
\* for (bench, K)
Sources(bench, K) ==
    {k \in 1..Len(files) :
        /\ Len(files[k].parts) >= 3
        /\ Decodable(files[k])
        /\ BenchKey(files[k].parts) = bench /\ RunKeyOf(files[k].parts) = K}
\* the keys that the files of the walk can stand for
WalkBenches == {Stem(Last(files[k].parts)) : k \in 1..Len(files)}
WalkRunKeys ==
    {RunKeyOf(files[k].parts) : k \in {j \in 1..Len(files) : Len(files[j].parts) >= 2}}
\* the mapping holds an entry for (bench, K)
HasEntry(bench, K) == DictHas(data, bench) /\ DictHas(DictAt(data, bench), K)

---------------------------------------------------------------------------
(* C14. The loader skips undecodable files: a file that cannot be read or  *)
(* is not valid JSON adds no entry and gives a diagnostic, the load is not *)
(* aborted, and every other eligible file, before and after it, is loaded: *)
(* the mapping returned is the one that the decodable files give.          *)
(* Stated as the claim; the except clause names json.JSONDecodeError and   *)
(* OSError only, so a file whose bytes are not text (UnicodeDecodeError)   *)
(* ends the load with an exception: violated.                              *)
C14_SkipsUndecodable ==
    /\ agg # "raised"
    /\ Loaded =>
         /\ \A bench \in WalkBenches : \A K \in WalkRunKeys :
               /\ HasEntry(bench, K) <=> Sources(bench, K) # {}
               /\ HasEntry(bench, K) =>
                     DictAt(DictAt(data, bench), K)
                        = files[Max(Sources(bench, K))].content[2]
         /\ Len(diags) = Cardinality({k \in 1..Len(files) :
                              Len(files[k].parts) >= 3 /\ ~Decodable(files[k])})

---------------------------------------------------------------------------
(* C15. Depth filter of the loader: a file is taken into the mapping only  *)
(* when it lies at the depth <compiler>/<variant>/<benchmark> below the    *)
(* root; a file at another depth, shallower or deeper, is skipped and      *)
(* never adds or replaces an entry.                                        *)
(* Stated as the claim; the code skips a file of fewer than three parts    *)
(* only, so a deeper file is loaded under its first two directories and    *)
(* its stem: violated.                                                     *)
C15_DepthFilter ==
    [][ (InWalk /\ Len(files[fidx].parts) # 3) =>
           data' = data
      ]_vars

---------------------------------------------------------------------------
(* Vocabulary of the data-row properties: the fields of a line between its *)
(* boundary bars, the empty ones in the middle kept.                       *)

RawFields(stripped) ==
    LET raw == Split(stripped, "|")
    IN [k \in 1..Len(raw) |-> Strip(raw[k])]
DropLeadingEmpty(fs) == IF fs # <<>> /\ fs[1] = <<>> THEN Tail(fs) ELSE fs
DropTrailingEmpty(fs) == IF fs # <<>> /\ Last(fs) = <<>> THEN Front(fs) ELSE fs
BoundaryFields(stripped) == DropTrailingEmpty(DropLeadingEmpty(RawFields(stripped)))

---------------------------------------------------------------------------
(* C21. Positional zip of data rows: only the empty leading and trailing   *)
(* boundary fields of the split on "|" are discarded, and the k-th         *)
(* remaining field is stored under the k-th column name; an empty cell in  *)
(* the middle of a row does not shift later cells.                         *)
(* Stated as the claim, for the rows the parser appends under a header of  *)
(* distinct column names; the code drops every empty field, so the cells   *)
(* after an empty one move one column to the left: violated.               *)
C21_PositionalZip ==
    [][ (RowStep /\ Len(rows') = Len(rows) + 1) =>
           LET cols == Val(header_cols)
               fs == BoundaryFields(Strip(lines[i]))
           IN \A k \in 1..Len(cols) :
                 (k <= Len(fs) /\ \A j \in 1..Len(cols) : j # k => cols[j] # cols[k]) =>
                     DictAt(Last(rows'), cols[k]) = Coerce(fs[k])
      ]_vars

---------------------------------------------------------------------------
(* C22. Blank-line flush: in Phase 2 a blank line appends the table in     *)
(* progress to tables if and only if a header is active and at least one   *)
(* row has accumulated (the appended table has a row), and after any blank *)
(* line no header is active and no rows are accumulated.                   *)
(* Stated as the claim; the code resets header_cols and rows only inside   *)
(* the flush, so a blank line after a header without rows leaves the       *)
(* header active and later data rows attach to it: violated.               *)
BlankStep == ScansLine /\ LineClass(lines[i], header_cols) = "blank"

C22_BlankLineFlush ==
    [][ BlankStep =>
           /\ IF Truthy(header_cols) /\ rows # <<>>
              THEN /\ AppendsTable
                   /\ Front(tables') = tables
                   /\ RowsOf(Last(tables')) = rows
                   /\ RowsOf(Last(tables')) # <<>>
              ELSE tables' = tables
           /\ header_cols' = None
           /\ rows' = <<>>
      ]_vars

---------------------------------------------------------------------------
(* Vocabulary of the warning property.                                     *)

\* the line, without the white space around it, starts with one of the four
\* prefixes or holds "stability" in any letter case
WarningForm(line) ==
    LET s == Strip(line)
    IN \/ \E pre \in {kw_warning, kw_recommendations, kw_star, kw_see} :
             Len(s) >= Len(pre) /\ \A k \in 1..Len(pre) : s[k] = pre[k]
       \/ \E k \in 1..Len(s) :
             /\ k + Len(kw_stability) - 1 <= Len(s)
             /\ \A j \in 1..Len(kw_stability) : LowerChar(s[k + j - 1]) = kw_stability[j]

---------------------------------------------------------------------------
(* C23. Warning lines have priority and no side effect on tables: in Phase *)
(* 2 every line that starts with "Warning", "Recommendations", "* " or     *)
(* "See ", or holds "stability" in any letter case, is appended to         *)
(* warnings, once and in input order, and leaves the current title, the    *)
(* active header, the accumulated rows and the emitted tables unchanged,   *)
(* also when the line holds "|" or "ns/op"; no other line is appended.     *)
C23_WarningLines ==
    [][ ScansLine =>
           IF WarningForm(lines[i])
           THEN /\ warnings' = Append(warnings, Strip(lines[i]))
                /\ UNCHANGED <<current_title, header_cols, rows, tables>>
           ELSE warnings' = warnings
      ]_vars

\* the text is parsed; a warning line that holds "|" and "ns/op" was met
\* while a header was active and a row had accumulated, and the table
\* returned has that header and that one row
C23_Witness ==
    /\ ParserDone
    /\ Len(lines) = 3
    /\ lines[1] = L_header_title
    /\ lines[2] \in {L_row_full, L_row_odd, L_row_gap, L_row_short}
    /\ lines[3] = L_warning
    /\ warnings = <<L_warning>>
    /\ Len(tables) = 1
    /\ ColumnsOf(tables[1]) = Fields(L_header_title)
    /\ Len(RowsOf(tables[1])) = 1

---------------------------------------------------------------------------
(* Vocabulary of the preamble property.                                    *)

\* the line is one that Phase 1 reads as metadata
MetadataForm(line) == IsSectionLine(Strip(line)) \/ IsKeyValueLine(Strip(line))
\* the line ends the preamble: not blank, and not of a metadata form
EndsPreamble(line) == Strip(line) # <<>> /\ ~MetadataForm(line)
\* a line that ends the preamble stands before position k
EnderBefore(k) == \E j \in 1..(k - 1) : j <= Len(lines) /\ EndsPreamble(lines[j])

---------------------------------------------------------------------------
(* C24. The preamble ends once and for all: metadata is written only in    *)
(* Phase 1; blank lines inside the preamble are skipped; after the first   *)
(* line that is not blank and is neither a "=== Title ===" marker nor an   *)
(* eligible "key: value" line, no later line changes metadata, whatever    *)
(* its form, and the parser never returns to the preamble phase.           *)
C24_PreambleEndsOnce ==
    /\ [](phase = "preamble" => ~EnderBefore(i))
    /\ [][ /\ (phase # "preamble") => (metadata' = metadata /\ phase' # "preamble")
           /\ (InPreamble /\ Strip(lines[i]) = <<>>) =>
                  (i' = i + 1 /\ metadata' = metadata /\ phase' = "preamble")
           /\ (InPreamble /\ EndsPreamble(lines[i])) =>
                  (phase' = "tables" /\ metadata' = metadata)
           /\ EnderBefore(i') => metadata' = metadata
         ]_vars

\* the text is parsed: a section marker, then a header line that ends the
\* preamble, then a "key: value" line; metadata holds the section only
C24_Witness ==
    /\ ParserDone
    /\ lines = <<L_section, L_header_title, L_key_value>>
    /\ DictKeys(metadata) = <<key_section>>

---------------------------------------------------------------------------
(* Vocabulary of the inlining property.                                    *)

\* what is left to do: an unprocessed header can still be entered and read
\* to its end, a call in progress has its unread lines and its END_FILE
\* line left, a call about to start has its entry left
HeaderCost == 2 * MaxBodyLines + 2
FrameCost(f) == 2 * (MaxBodyLines - f[2]) + 1
RECURSIVE FramesCost(_)
FramesCost(fs) == IF fs = <<>> THEN 0 ELSE FrameCost(fs[1]) + FramesCost(Tail(fs))
WorkLeft ==
    IF inl # "running" THEN 0
    ELSE Cardinality(Headers \ processed) * HeaderCost
         + FramesCost(frames)
         + (IF IsNone(call) THEN 0 ELSE 1)

\* the include under way names a file that was entered before
LaterInclude == inl = "running" /\ ~IsNone(call) /\ Val(call) \in processed

---------------------------------------------------------------------------
(* C25. Header inlining terminates and inlines each file once: for any     *)
(* include graph among project headers, cyclic and diamond-shaped ones     *)
(* included, inline_file terminates; the body of each project file is      *)
(* emitted at most once (between one BEGIN_FILE / END_FILE pair), and      *)
(* every later include of a file already processed yields the "Skipped     *)
(* already inlined" marker only.                                           *)
(* Termination is stated by a variant: while the inlining runs a step is   *)
(* possible, and every step lowers the work left, which is never negative. *)
C25_InlineOnce ==
    /\ [](\A h \in Headers : begun[h] <= 1 /\ ended[h] <= begun[h])
    /\ [](inl = "running" => (~IsNone(call) \/ frames # <<>>))
    /\ [](inl = "done" =>
            /\ frames = <<>> /\ IsNone(call)
            /\ \A h \in Headers : ended[h] = begun[h] /\ (begun[h] = 1 <=> h \in processed))
    /\ [][ /\ WorkLeft' < WorkLeft /\ WorkLeft' >= 0
           /\ LaterInclude =>
                 /\ <<Val(call), InProgress(Val(call))>> \in skipped'
                 /\ UNCHANGED <<begun, ended, frames, processed>>
           /\ skipped' # skipped => LaterInclude
         ]_vars

\* the inlining has returned; a file was included again while its own call
\* was in progress (a cycle), another after its call had returned (a
\* diamond or a repeated include), and every header was inlined
C25_Witness ==
    /\ inl = "done"
    /\ processed = Headers
    /\ \E g, h \in Headers : g # h /\ <<g, TRUE>> \in skipped /\ <<h, FALSE>> \in skipped

=============================================================================
